---------------------------- MODULE Spec2Model ----------------------------
(***************************************************************************)
(* A state-machine model of the consciousness-world simulation engine:     *)
(*   WorldPhysics      (src/src/physics/WorldPhysics.js)                   *)
(*   ConsciousEntity   (src/src/evolution/ConsciousEntity.js)              *)
(*   PopulationManager (src/src/evolution/PopulationManager.js)            *)
(*   NeuralNetwork     (src/src/neural/NeuralNetwork.js)                   *)
(*   ConsciousnessSimulation, the tick loop and its reset()                *)
(*                     (src/src/neural/NeuralNetwork.js)                   *)
(*   devTools.killRandomEntity (src/public/main.js)                        *)
(*                                                                         *)
(* Numbers.  The code computes with IEEE doubles; the model computes with  *)
(* fixed-point integers.  Field values (temperature, catalyser) are held   *)
(* in units of 0.01, so 0.2 is 20 and 2 is 200; a product or quotient is   *)
(* rounded to the nearest unit.  An entity's energy is held in units of    *)
(* 0.5 (the passive decay is one unit, the initial 100 is 200).            *)
(* Every Math.random() draw is a choice from a small set.                  *)
(***************************************************************************)
EXTENDS Integers, Sequences, FiniteSets, TLC

VARIABLES
    \* ---- WorldPhysics ----
    gridSize,        \* this.gridSize
    tick,            \* this.tick
    phase,           \* this.phase: "emit" or "collect"
    temperature,     \* lowerDimension.temperature[x][y]
    catalyser,       \* lowerDimension.catalyser[x][y]  (the "lower" catalyser)
    upperCatalyser,  \* upperDimension.catalyser[x][y]
    cores,           \* lowerDimension.cores, a sequence indexed by id + 1
    energies,        \* lowerDimension.energies, a sequence in push order
    stepCalls,       \* history: step() calls since construction or reset()
    noiseLeft,       \* the random source: the coming step() calls whose draws
                     \* are sampled; the draws after them are 0.5 (noise 0)
    \* ---- PopulationManager ----
    populationSize,  \* this.populationSize; 0 while no population is constructed
    entities,        \* this.entities, a sequence indexed by slot + 1
    generation,      \* this.generation
    totalDeaths,     \* this.totalDeaths
    bestFitness,     \* this.bestFitness
    allTimeBest,     \* this.allTimeBest: <<>> for null, else <<the clone>>
    updateLog,       \* history: what the latest update() did, slot by slot
    brains,          \* the NeuralNetwork objects: [of |-> the object that
                     \* entities[i].brain refers to, slot by slot, best |->
                     \* the object allTimeBest.brain refers to (0 for none),
                     \* heap |-> what each object holds]
    \* ---- ConsciousnessSimulation ----
    currentSessionId, \* this.currentSessionId: the persistence session, or null
    thrown,          \* history: the latest step() threw to its caller
    isRunning,       \* this.isRunning
    dbAPI,           \* this.dbAPI and the server behind it: [currentSessionId
                     \* |-> DatabaseAPI's own currentSessionId, requests |->
                     \* the calls that await a response, started |-> how many
                     \* sessions the server has started, ended |-> the ids
                     \* of the sessions the server has ended]
    \* ---- two runs of one population, side by side ----
    runs,            \* <<>>, or the two runs: the entities, the tick, the
                     \* clock Date.now() and what each entity sensed
    \* ---- NeuralNetwork, one network on its own ----
    network,         \* <<>>, or the network: [layers], a layer being
                     \* [weights (rows of numbers), biases]
    serialized,      \* <<>>, or <<data>>: serialized data as it is stored
    restored,        \* <<>>, or what the latest deserialize(data) was given
                     \* and what it returned or threw
    mutated,         \* <<>>, or what the latest mutate(rate, strength) was
                     \* given and returned, with calculateSimilarity of the two
    \* ---- ConsciousEntity, one observer in the world ----
    vision           \* <<>>, or the observer's cell and energy and its
                     \* this.vision after updateVision()

worldVars == <<gridSize, tick, phase, temperature, catalyser, upperCatalyser,
               cores, energies, stepCalls, noiseLeft>>

popVars == <<populationSize, entities, generation, totalDeaths, bestFitness,
             allTimeBest, updateLog, brains>>

sessionVars == <<currentSessionId, thrown, isRunning, dbAPI>>

netVars == <<network, serialized, restored, mutated>>

labVars == <<runs, netVars, vision>>

vars == <<worldVars, popVars, sessionVars, labVars>>

-----------------------------------------------------------------------------
(* Bounds of the model *)

\* cores per world (the code seeds 50, WorldPhysics.js:73)
NumCores == 2
\* step() is not called once tick has reached MaxTick
MaxTick == 10
\* the world an entity looks at is stepped until tick has reached MaxSenseTick
MaxSenseTick == 8
\* the step() calls with sampled noise in the world about the threshold
NoisySteps == 3
\* the step() calls with sampled noise in the cooling world of one cell
CoolingSteps == 6

\* the side of the world that is checked on its own
WorldSize == 2
\* the side of the world the simulation runs in
SimSize == 1
\* the largest population
MaxPop == 3
\* startSession() is not requested once MaxSessions sessions were started
MaxSessions == 3
\* the tick loop stops once tick has reached MaxSimTick
MaxSimTick == 205
\* the host's calls from outside the tick loop come after step HostStep
HostStep == 6

\* the two runs set side by side are updated MaxTwinTick times
MaxTwinTick == 2

\* the number of streams of random draws a network is built or mutated with
NumStreams == 3

\* a reading of the clock (in ms) a quarter turn of the life force's sine on
LateClock == 15708

(* Program constants *)

\* Math.min(1, ..) of a temperature: 1.0 in field units (of 0.01)
TempMax == 100
\* Math.min(2, ..) of the upper catalyser, in field units
UpperMax == 200
\* catalyserAmount > 0.2 and temperature > 0.2, in field units
Threshold == 20
\* consecutiveHighTemp >= 5
BloomCount == 5
\* this.tick - core.bloomTime >= 5 and this.tick - energy.createdAt >= 5
Lifetime == 5
\* catalyser[core.x][core.y] += 0.1, in field units
Release == 10
\* scheduleCoreMovement(energy.coreId, 3)
MoveDelay == 3
\* consumeEnergy returns 10
EnergyValue == 10
\* this.energy = 100, in energy units (of 0.5)
InitialEnergy == 200
\* this.energy -= 0.5, in energy units
Decay == 1
\* this.energy < 20, in energy units
LowEnergy == 40
\* this.memoryCapacity = 50
MemoryCapacity == 50
\* tick - outcome.tick <= 10
OutcomeWindow == 10
\* this.lastActionIndex = 4, the index of 'stay'
Stay == 4
\* const visionRadius = 4
VisionRadius == 4

-----------------------------------------------------------------------------
(* Helpers *)

Max(a, b) == IF a >= b THEN a ELSE b
Min(a, b) == IF a <= b THEN a ELSE b

\* a / b rounded to the nearest integer, for a >= 0 and b > 0
RoundDiv(a, b) == (2 * a + b) \div (2 * b)

\* a / b rounded to the nearest integer, for b > 0
SignedRound(a, b) == IF a >= 0 THEN RoundDiv(a, b) ELSE 0 - RoundDiv(0 - a, b)

Cells(n) == (0 .. n - 1) \X (0 .. n - 1)

RECURSIVE SumOver(_, _)
SumOver(f, S) ==
    IF S = {} THEN 0
    ELSE LET c == CHOOSE c \in S : TRUE IN f[c] + SumOver(f, S \ {c})

CoreIds == 1 .. NumCores

-----------------------------------------------------------------------------
(* WorldPhysics: the temperature field *)

\* (x + d + gridSize) % gridSize
Wrap(v, n) == (v + n) % n

Offsets == {-1, 0, 1} \X {-1, 0, 1}

\* The 8 toroidal neighbours of cell c, one entry per (dx, dy) # (0, 0): on a
\* small torus several offsets reach the same cell and each is counted.
NeighbourSum(f, c, n) ==
    LET Term(o) == IF o = <<0, 0>> THEN 0
                   ELSE f[<<Wrap(c[1] + o[1], n), Wrap(c[2] + o[2], n)>>]
        g == [o \in Offsets |-> Term(o)]
    IN SumOver(g, Offsets)

\* Math.max(0, Math.min(1, v))
ClampTemp(v) == Max(0, Min(TempMax, v))

\* shiftTemperature(), first loop: newTemperature[(x + 1) % n][y] = temperature[x][y]
Shifted(temp, n) == [c \in Cells(n) |-> temp[<<Wrap(c[1] - 1, n), c[2]>>]]

\* the k-th cell of the loops "for x .. for y ..", k from 1
LoopCell(k, n) == <<(k - 1) \div n, (k - 1) % n>>

\* shiftTemperature(), second loop, from the k-th cell on: the cell is blended
\* 90% / 10% with the mean of its 8 neighbours, the noise drawn for it is
\* added and the sum is clamped.  The loop writes into the array it reads, so
\* a cell sees the new values of the cells before it.
\* 0.9 * t + 0.1 * (sum / 8) = (72 * t + sum) / 80.
RECURSIVE Diffuse(_, _, _, _)
Diffuse(f, noise, k, n) ==
    IF k > n * n THEN f
    ELSE LET c == LoopCell(k, n)
             v == ClampTemp(RoundDiv(72 * f[c] + NeighbourSum(f, c, n), 80) + noise[c])
         IN Diffuse([f EXCEPT ![c] = v], noise, k + 1, n)

\* shiftTemperature()
ShiftTemperature(temp, noise, n) == Diffuse(Shifted(temp, n), noise, 1, n)

-----------------------------------------------------------------------------
(* WorldPhysics: the catalyser exchange *)

\* emitPhase(): lower += upper
EmitLower(lower, upper, n) == [c \in Cells(n) |-> lower[c] + upper[c]]

\* emitPhase(): upper *= 0.8
EmitUpper(upper, n) == [c \in Cells(n) |-> RoundDiv(8 * upper[c], 10)]

\* the cells of the 3x3 block around c that lie inside the grid (no wraparound)
Block(c, n) ==
    {d \in Cells(n) : d[1] - c[1] \in {-1, 0, 1} /\ d[2] - c[2] \in {-1, 0, 1}}

\* collectPhase(): what cell src hands to cell dst
Share(lower, upper, src, dst, n) ==
    LET total == SumOver(upper, Block(src, n))
    IN IF lower[src] > 0 /\ total > 0 /\ dst \in Block(src, n)
       THEN RoundDiv(lower[src] * upper[dst], total)
       ELSE 0

\* collectPhase(): newCatalyser[dst], the sum of the shares handed to dst
Collected(lower, upper, dst, n) ==
    LET g == [src \in Cells(n) |-> Share(lower, upper, src, dst, n)]
    IN SumOver(g, Cells(n))

\* a variant of CollectUpper that leaves out the Math.min(2, ..)
CollectUpperUncapped(lower, upper, n) ==
    [c \in Cells(n) |-> upper[c] + Collected(lower, upper, c, n)]

\* collectPhase(): upper = Math.min(2, upper + newCatalyser)
CollectUpper(lower, upper, n) ==
    [c \in Cells(n) |-> Min(UpperMax, upper[c] + Collected(lower, upper, c, n))]

\* collectPhase(): every cell that held catalyser is cleared
CollectLower(lower, n) == [c \in Cells(n) |-> IF lower[c] > 0 THEN 0 ELSE lower[c]]

-----------------------------------------------------------------------------
(* WorldPhysics: cores and energy manifestations *)

\* the moves array of moveCore(), in its order
Moves == << <<-1, -1>>, <<0, -1>>, <<1, -1>>,
            <<-1, 0>>,             <<1, 0>>,
            <<-1, 1>>,  <<0, 1>>,  <<1, 1>> >>

MoveIndex == 1 .. Len(Moves)

\* the draws of Math.floor(Math.random() * moves.length) + 1; in a world of
\* one cell every move leads to the same cell and one draw stands for all
MoveDraws(n) == IF n = 1 THEN {1} ELSE MoveIndex

\* moveCore(core), with m the index Math.floor(Math.random() * moves.length) + 1
MoveCore(core, m, n) ==
    [core EXCEPT !.x = Wrap(core.x + Moves[m][1], n),
                 !.y = Wrap(core.y + Moves[m][2], n)]

\* a core as initializeCores() pushes it; moveAfterTick 0 stands for the
\* absent property (the guard "core.moveAfterTick &&" reads 0 as absent too)
NewCore(id, x, y) ==
    [id |-> id, x |-> x, y |-> y, state |-> "dormant", incubationTime |-> 0,
     bloomTime |-> 0, consecutiveHighTemp |-> 0, moveAfterTick |-> 0]

\* updateCores(): core.moveAfterTick && this.tick >= core.moveAfterTick
MoveDue(core, t) == core.moveAfterTick > 0 /\ t >= core.moveAfterTick

\* a variant of DelayedMove that leaves moveAfterTick on the core
DelayedMoveKept(core, t, m, n) ==
    IF core.moveAfterTick > 0 /\ t >= core.moveAfterTick
    THEN MoveCore(core, m, n)
    ELSE core

\* updateCores(): the delayed move, then delete core.moveAfterTick
DelayedMove(core, t, m, n) ==
    IF MoveDue(core, t)
    THEN [MoveCore(core, m, n) EXCEPT !.moveAfterTick = 0]
    ELSE core

\* a variant of Incubate that asks for more than 0.25
IncubateAboveSeed(core, cat, t) ==
    IF core.state = "dormant" /\ cat > 25
    THEN [core EXCEPT !.state = "incubated", !.incubationTime = t,
                      !.consecutiveHighTemp = 0]
    ELSE core

\* updateCores(): dormant -> incubated when catalyserAmount > 0.2
Incubate(core, cat, t) ==
    IF core.state = "dormant" /\ cat > Threshold
    THEN [core EXCEPT !.state = "incubated", !.incubationTime = t,
                      !.consecutiveHighTemp = 0]
    ELSE core

\* a variant of BloomReached that is content with one warm update
BloomReachedAtOnce(k) == k >= 1

\* updateCores(): core.consecutiveHighTemp >= 5
BloomReached(k) == k >= BloomCount

\* updateCores(): an incubated core counts consecutive warm updates and blooms
Warm(core, temp, t) ==
    IF core.state = "incubated"
    THEN IF temp > Threshold
         THEN IF BloomReached(core.consecutiveHighTemp + 1)
              THEN [core EXCEPT !.consecutiveHighTemp = @ + 1,
                                !.state = "bloomed", !.bloomTime = t]
              ELSE [core EXCEPT !.consecutiveHighTemp = @ + 1]
         ELSE [core EXCEPT !.consecutiveHighTemp = 0]
    ELSE core

\* updateCores(): the energies.push of a bloom
NewEnergy(core, t) ==
    [x |-> core.x, y |-> core.y, createdAt |-> t, active |-> TRUE,
     coreId |-> core.id]

\* a variant of Withers that waits one tick longer (> in the place of >=)
WithersLate(core, t) == core.state = "bloomed" /\ t - core.bloomTime > Lifetime

\* updateCores(): core.state === 'bloomed' && this.tick - core.bloomTime >= 5
Withers(core, t) == core.state = "bloomed" /\ t - core.bloomTime >= Lifetime

\* the draw made for core i, when one was made
Draw(m, i) == IF i \in DOMAIN m THEN m[i] ELSE 1

\* updateCores(): the body of the forEach for the core at index i.  st holds
\* the cores, the lower catalyser and the energies as the cores before i left
\* them; m1[i] and m2[i] are the draws of the two moveCore calls.
UpdateCore(st, i, temp, t, m1, m2, n) ==
    LET c1 == DelayedMove(st.cores[i], t, Draw(m1, i), n)
        pos == <<c1.x, c1.y>>
        c2 == Incubate(c1, st.catalyser[pos], t)
        c3 == Warm(c2, temp[pos], t)
        bloomed == c2.state = "incubated" /\ c3.state = "bloomed"
        c4 == IF Withers(c3, t)
              THEN MoveCore([c3 EXCEPT !.state = "dormant",
                                       !.consecutiveHighTemp = 0], Draw(m2, i), n)
              ELSE c3
    IN [cores |-> [st.cores EXCEPT ![i] = c4],
        catalyser |-> IF Withers(c3, t)
                      THEN [st.catalyser EXCEPT ![pos] = @ + Release]
                      ELSE st.catalyser,
        energies |-> IF bloomed THEN Append(st.energies, NewEnergy(c3, t))
                     ELSE st.energies]

RECURSIVE UpdateCoresFrom(_, _, _, _, _, _, _)
UpdateCoresFrom(st, i, temp, t, m1, m2, n) ==
    IF i > Len(st.cores) THEN st
    ELSE UpdateCoresFrom(UpdateCore(st, i, temp, t, m1, m2, n), i + 1,
                         temp, t, m1, m2, n)

\* a variant of Expired that keeps an entry one tick longer
ExpiredLate(e, t) == t - e.createdAt > Lifetime

\* updateCores(): this.tick - energy.createdAt >= 5 drops the entry
Expired(e, t) == t - e.createdAt >= Lifetime

\* updateCores(): the cores in order, then the expired energies are filtered out
UpdateCores(cs, lower, en, temp, t, m1, m2, n) ==
    LET st == UpdateCoresFrom([cores |-> cs, catalyser |-> lower, energies |-> en],
                              1, temp, t, m1, m2, n)
    IN [st EXCEPT !.energies = SelectSeq(st.energies, LAMBDA e : ~Expired(e, t))]

-----------------------------------------------------------------------------
(* WorldPhysics: construction, reset() and the operations *)

\* a field with value p[1] on the cells of even x + y and p[2] on the others
Chequer(p, n) == [c \in Cells(n) |-> IF (c[1] + c[2]) % 2 = 0 THEN p[1] ELSE p[2]]

\* Sample worlds of the constructor.  generateTemperatureField(): across the
\* default 100 x 100 grid (sin(..) * 0.4 + sin(..) * 0.2 + sin(..) * 0.15 +
\* noise + 1) / 2 lies between 0.1 and 0.9, on either side of the 0.2 that
\* cores test.  The upper catalyser is Math.random() * 2 in each cell.
\*   - two warm worlds, one whose cores are supplied with catalyser from the
\*     first emit on and one in which they wait for it, without noise;
\*   - a world about the 0.2 threshold, the noise sampled for NoisySteps calls;
\*   - two worlds without catalyser near the ends of the temperature range,
\*     the noise sampled in every call.
GridWorlds(n) ==
    {[temp |-> Chequer(<<60, 60>>, n), upper |-> Chequer(u, n), noisy |-> 0] :
        u \in {<<25, 150>>, <<10, 0>>}}
    \cup
    {[temp |-> Chequer(<<19, 22>>, n), upper |-> Chequer(<<25, 150>>, n),
      noisy |-> NoisySteps]}
    \cup
    {[temp |-> Chequer(t, n), upper |-> Chequer(<<0, 0>>, n),
      noisy |-> 2 * MaxTick] : t \in {<<10, 11>>, <<90, 90>>}}

\* Sample worlds of one cell: a warm world without catalyser (no core ever
\* blooms), a warm world with catalyser (the cores bloom again and again),
\* and a world CoolingSteps noise draws above the threshold, which the noise
\* can cool to 0.2 right after the first bloom (the cores bloom once).
CellWorlds ==
    {[temp |-> Chequer(<<60, 60>>, 1), upper |-> Chequer(<<u, u>>, 1), noisy |-> 0] :
        u \in {0, 25}}
    \cup
    {[temp |-> Chequer(<<Threshold + CoolingSteps, 0>>, 1),
      upper |-> Chequer(<<25, 25>>, 1), noisy |-> CoolingSteps]}

WorldSamples(n) == IF n = 1 THEN CellWorlds ELSE GridWorlds(n)

\* Sample fields of (Math.random() - 0.5) * 0.02, the noise of each cell; in
\* the world of one cell the noise that cools it
NoiseFields(n) ==
    IF n = 1 THEN {Chequer(<<-1, -1>>, n)}
    ELSE {Chequer(p, n) : p \in {<<-1, -1>>, <<0, 0>>, <<1, 1>>, <<1, -1>>}}

\* the noise of Math.random() = 0.5 in every cell
NoNoise(n) == {Chequer(<<0, 0>>, n)}

\* Sample draws of Math.floor(Math.random() * gridSize) for the cores' first
\* cells: all cores on one cell, and the cores along the row y = 0
Placements(n) ==
    {[i \in CoreIds |-> <<0, 0>>], [i \in CoreIds |-> <<(i - 1) % n, 0>>]}

\* initializeCores(): core i - 1 at the cell drawn for it
InitCores(at) == [i \in CoreIds |-> NewCore(i - 1, at[i][1], at[i][2])]

\* the constructor and reset(): tick 0, phase emit, fresh fields and cores
Fresh(n, w, at) ==
    /\ gridSize' = n
    /\ tick' = 0
    /\ phase' = "emit"
    /\ temperature' = w.temp
    /\ catalyser' = [c \in Cells(n) |-> 0]
    /\ upperCatalyser' = w.upper
    /\ cores' = InitCores(at)
    /\ energies' = <<>>
    /\ stepCalls' = 0
    /\ noiseLeft' = w.noisy

\* no world is constructed
NoWorld ==
    /\ gridSize = 0
    /\ tick = 0
    /\ phase = "emit"
    /\ temperature = <<>>
    /\ catalyser = <<>>
    /\ upperCatalyser = <<>>
    /\ cores = <<>>
    /\ energies = <<>>
    /\ stepCalls = 0
    /\ noiseLeft = 0

\* new WorldPhysics(n)
WorldInit(n) ==
    /\ gridSize = n
    /\ tick = 0
    /\ phase = "emit"
    /\ \E w \in WorldSamples(n) :
          /\ temperature = w.temp
          /\ upperCatalyser = w.upper
          /\ noiseLeft = w.noisy
    /\ catalyser = [c \in Cells(n) |-> 0]
    /\ cores \in {InitCores(at) : at \in Placements(n)}
    /\ energies = <<>>
    /\ stepCalls = 0

\* reset()
Reset ==
    /\ \E w \in WorldSamples(gridSize), at \in Placements(gridSize) :
          Fresh(gridSize, w, at)
    /\ UNCHANGED <<popVars, sessionVars, labVars>>

\* a variant of TickAfter that counts every step()
TickAfterEveryStep == tick + 1

\* step(): the tick updateCores() sees
TickAfter == IF phase = "emit" THEN tick ELSE tick + 1

\* step(): the cores whose delayed move is due, and those that wither
DueCores == {i \in CoreIds : MoveDue(cores[i], TickAfter)}
WitherCores == {i \in CoreIds : Withers(cores[i], TickAfter)}

\* step() with the draws noise (per cell), m1 and m2 (per moving core): the
\* fields, cores and energies it leaves
StepResult(noise, m1, m2) ==
    LET n == gridSize
        temp == ShiftTemperature(temperature, noise, n)
        lower == IF phase = "emit" THEN EmitLower(catalyser, upperCatalyser, n)
                 ELSE CollectLower(catalyser, n)
        upper == IF phase = "emit" THEN EmitUpper(upperCatalyser, n)
                 ELSE CollectUpper(catalyser, upperCatalyser, n)
        st == UpdateCores(cores, lower, energies, temp, TickAfter, m1, m2, n)
    IN [temperature |-> temp, upperCatalyser |-> upper, cores |-> st.cores,
        catalyser |-> st.catalyser, energies |-> st.energies]

\* step(): the fields, the phase flip and the tick; the cores and energies
\* are left to the caller, who may go on to change them
StepFields(r) ==
    /\ temperature' = r.temperature
    /\ upperCatalyser' = r.upperCatalyser
    /\ catalyser' = r.catalyser
    /\ phase' = IF phase = "emit" THEN "collect" ELSE "emit"
    /\ tick' = TickAfter
    /\ stepCalls' = stepCalls + 1
    /\ noiseLeft' = Max(0, noiseLeft - 1)
    /\ UNCHANGED gridSize

\* the draws of one step(): the noise of each cell and the moves of the cores
StepDraws ==
    (IF noiseLeft > 0 THEN NoiseFields(gridSize) ELSE NoNoise(gridSize))
    \X [DueCores -> MoveDraws(gridSize)] \X [WitherCores -> MoveDraws(gridSize)]

\* step()
Step ==
    /\ tick < MaxTick
    /\ \E d \in StepDraws :
          \E r \in {StepResult(d[1], d[2], d[3])} :
             /\ StepFields(r)
             /\ cores' = r.cores
             /\ energies' = r.energies
    /\ UNCHANGED <<popVars, sessionVars, labVars>>

\* consumeEnergy(): energies.findIndex(e => e.x === x && e.y === y && e.active),
\* 0 for the -1 of no match
RECURSIVE FindEnergy(_, _, _, _)
FindEnergy(en, x, y, i) ==
    IF i > Len(en) THEN 0
    ELSE IF en[i].x = x /\ en[i].y = y /\ en[i].active THEN i
    ELSE FindEnergy(en, x, y, i + 1)

\* energies.splice(k, 1)
Splice(en, k) == [j \in 1 .. Len(en) - 1 |-> IF j < k THEN en[j] ELSE en[j + 1]]

\* a variant of ScheduleCoreMovement with a delay of one tick more
ScheduleCoreMovementLate(cs, coreId, t) ==
    [i \in DOMAIN cs |->
        IF cs[i].id = coreId /\ \A j \in 1 .. i - 1 : cs[j].id # coreId
        THEN [cs[i] EXCEPT !.moveAfterTick = t + MoveDelay + 1]
        ELSE cs[i]]

\* scheduleCoreMovement(coreId, 3): cores.find(c => c.id === coreId), then
\* core.moveAfterTick = this.tick + delay
ScheduleCoreMovement(cs, coreId, t) ==
    [i \in DOMAIN cs |->
        IF cs[i].id = coreId /\ \A j \in 1 .. i - 1 : cs[j].id # coreId
        THEN [cs[i] EXCEPT !.moveAfterTick = t + MoveDelay]
        ELSE cs[i]]

\* consumeEnergy(x, y): the value returned
ConsumeReturn(en, x, y) == IF FindEnergy(en, x, y, 1) # 0 THEN EnergyValue ELSE 0

\* consumeEnergy(x, y): the cores it leaves
ConsumeCores(cs, en, x, y, t) ==
    LET k == FindEnergy(en, x, y, 1)
    IN IF k # 0 THEN ScheduleCoreMovement(cs, en[k].coreId, t) ELSE cs

\* a variant of ConsumeEnergies that leaves the entry in the list
ConsumeEnergiesKeeping(en, x, y) == en

\* consumeEnergy(x, y): the energies it leaves
ConsumeEnergies(en, x, y) ==
    LET k == FindEnergy(en, x, y, 1)
    IN IF k # 0 THEN Splice(en, k) ELSE en

\* consumeEnergy(x, y) called on the world
ConsumeEnergy ==
    \E c \in Cells(gridSize) :
       /\ cores' = ConsumeCores(cores, energies, c[1], c[2], tick)
       /\ energies' = ConsumeEnergies(energies, c[1], c[2])
       /\ UNCHANGED <<gridSize, tick, phase, temperature, catalyser,
                      upperCatalyser, stepCalls, noiseLeft>>
       /\ UNCHANGED <<popVars, sessionVars, labVars>>

\* getWorldState(): the counts it reports of the energies and of the cores
GetWorldState ==
    [tick |-> tick, phase |-> phase, cores |-> Len(cores),
     energies |-> Len(energies),
     activeEnergies |-> Len(SelectSeq(energies, LAMBDA e : e.active)),
     coreStates |->
        [state \in {"dormant", "incubated", "bloomed"} |->
            Cardinality({i \in DOMAIN cores : cores[i].state = state})]]

-----------------------------------------------------------------------------
(* ConsciousEntity *)

\* the moves array of executeAction(), in its order: up, down, left, right, stay
AgentMoves == << <<0, -1>>, <<0, 1>>, <<-1, 0>>, <<1, 0>>, <<0, 0>> >>

\* the action indices makeDecision() returns
ActionIndex == 0 .. Len(AgentMoves) - 1

\* new ConsciousEntity(x, y, brain, gridSize) at the cell c.  parent is
\* history: the slot (counted from 1) of the entity this one was bred from,
\* 0 when it was bred from none.
NewEntity(c) ==
    [x |-> c[1], y |-> c[2], energy |-> InitialEnergy, age |-> 0,
     totalEnergyGained |-> 0, fitness |-> 0, memory |-> <<>>,
     recentOutcomes |-> <<>>, lastTotalEnergy |-> 0, lastActionIndex |-> Stay,
     lastAction |-> "unknown", parent |-> 0]

\* a variant of AddMemory that drops the newest experience beyond the capacity
AddMemoryDroppingNewest(memory, m) ==
    LET pushed == Append(memory, m)
    IN IF Len(pushed) > MemoryCapacity THEN SubSeq(pushed, 1, MemoryCapacity)
       ELSE pushed

\* addMemory(): push the experience, shift the oldest out beyond the capacity
AddMemory(memory, m) ==
    LET pushed == Append(memory, m)
    IN IF Len(pushed) > MemoryCapacity THEN Tail(pushed) ELSE pushed

\* update(): the reward window; 1.0 is 10 and -0.1 is -1
TrackOutcomes(a, gained, energy, t) ==
    LET o1 == IF gained > 0
              THEN Append(a.recentOutcomes,
                          [action |-> a.lastActionIndex, reward |-> 10, tick |-> t])
              ELSE a.recentOutcomes
        o2 == IF energy < LowEnergy
              THEN Append(o1, [action |-> a.lastActionIndex, reward |-> -1, tick |-> t])
              ELSE o1
    IN SelectSeq(o2, LAMBDA o : t - o.tick <= OutcomeWindow)

\* a variant of Outcome that compares the energy with the energy before the
\* decay
OutcomeAfterDecay(total, lastTotal, energy) ==
    LET previousEnergy == energy + Decay
    IN IF total > lastTotal THEN "energy_gained"
       ELSE IF energy < previousEnergy THEN "energy_lost"
       ELSE "moved"

\* update(): the outcome stored with the experience
Outcome(total, lastTotal, energy) ==
    LET previousEnergy == energy + Decay
    IN IF total > lastTotal THEN "energy_gained"
       ELSE IF energy < previousEnergy - Decay THEN "energy_lost"
       ELSE "moved"

\* getMemorySummary(): summary[baseIndex + 9], the signed indicator of the
\* outcome of an experience
OutcomeIndicator(outcome) ==
    IF outcome = "energy_gained" THEN 1
    ELSE IF outcome = "energy_lost" THEN -1
    ELSE 0

\* executeAction(action): actionNames
ActionNames == <<"up", "down", "left", "right", "stay">>

\* executeAction(action): the toroidal move
ExecuteAction(a, action, n) ==
    [a EXCEPT !.x = Wrap(a.x + AgentMoves[action + 1][1], n),
              !.y = Wrap(a.y + AgentMoves[action + 1][2], n),
              !.lastActionIndex = action,
              !.lastAction = ActionNames[action + 1]]

\* a variant of UpdateEntity that computes the fitness before it ages the entity
UpdateEntityStaleFitness(a, en, t, action, n) ==
    LET gained == ConsumeReturn(en, a.x, a.y)
        energy == a.energy - Decay + 2 * gained
        total == a.totalEnergyGained + gained
        seen == [a EXCEPT !.energy = energy,
                          !.age = a.age + 1,
                          !.totalEnergyGained = total,
                          !.recentOutcomes = TrackOutcomes(a, gained, energy, t),
                          !.memory = AddMemory(a.memory,
                                [tick |-> t,
                                 outcome |-> Outcome(total, a.lastTotalEnergy, energy)]),
                          !.lastTotalEnergy = total]
        moved == ExecuteAction(seen, action, n)
    IN [moved EXCEPT !.fitness = a.age + moved.totalEnergyGained]

\* update(world, otherEntities, tick): the entity it leaves, en being the
\* world's energies at the call and action the index makeDecision() draws
UpdateEntity(a, en, t, action, n) ==
    LET gained == ConsumeReturn(en, a.x, a.y)
        energy == a.energy - Decay + 2 * gained
        total == a.totalEnergyGained + gained
        seen == [a EXCEPT !.energy = energy,
                          !.age = a.age + 1,
                          !.totalEnergyGained = total,
                          !.recentOutcomes = TrackOutcomes(a, gained, energy, t),
                          !.memory = AddMemory(a.memory,
                                [tick |-> t,
                                 outcome |-> Outcome(total, a.lastTotalEnergy, energy)]),
                          !.lastTotalEnergy = total]
        moved == ExecuteAction(seen, action, n)
    IN [moved EXCEPT !.fitness = moved.age + moved.totalEnergyGained]

\* a variant of Survived that takes an entity without energy for alive
SurvivedAtZero(a) == a.energy >= 0

\* update(): return this.energy > 0
Survived(a) == a.energy > 0

\* reproduce(): a new entity at a drawn cell c; slot is the parent's
Reproduce(slot, c) == [NewEntity(c) EXCEPT !.parent = slot]

\* clone(): position, energy, age, totalEnergyGained and fitness are copied
Clone(a) ==
    [NewEntity(<<a.x, a.y>>) EXCEPT !.energy = a.energy, !.age = a.age,
                                    !.totalEnergyGained = a.totalEnergyGained,
                                    !.fitness = a.fitness]

-----------------------------------------------------------------------------
(* PopulationManager *)

Slots == 1 .. populationSize

\* getLivingEntities(): the slots of the entities with energy > 0
Living(es) == {i \in DOMAIN es : es[i].energy > 0}

\* findBestLivingEntity(): the loop from slot i on, b being the best slot so
\* far (0 for null, whose bestFitness is -1)
RECURSIVE BestFrom(_, _, _)
BestFrom(es, i, b) ==
    IF i > Len(es) THEN b
    ELSE LET bestSoFar == IF b = 0 THEN -1 ELSE es[b].fitness
         IN BestFrom(es, i + 1,
                     IF es[i].energy > 0 /\ es[i].fitness > bestSoFar THEN i ELSE b)

\* a variant of FindBestLivingEntity that does not ask whether an entity lives
FindBestOfAll(es) ==
    CHOOSE i \in DOMAIN es :
       \A j \in DOMAIN es :
          es[i].fitness > es[j].fitness \/ (es[i].fitness = es[j].fitness /\ i <= j)

\* a variant of FindBestLivingEntity that takes the last of the living
\* entities of greatest fitness (>= in the place of >)
FindBestLivingLast(es) ==
    IF Living(es) = {} THEN 0
    ELSE CHOOSE i \in Living(es) :
            \A j \in Living(es) :
               es[i].fitness > es[j].fitness \/ (es[i].fitness = es[j].fitness /\ i >= j)

FindBestLivingEntity(es) == BestFrom(es, 1, 0)

\* a variant of NewBest that takes every death for a new best
NewBestAlways(fitness, best) == TRUE

\* handleEntityDeath(): deadEntity.fitness > this.bestFitness
NewBest(fitness, best) == fitness > best

\* ---- the brains of the entities: objects, and references to them ----
\* A network is an object on the heap; an entity holds a reference to it.
\* What the object holds is abstracted to one number: the sum of what has
\* been added in place to its output biases since the object was created, in
\* units of 0.00001.  The identity of an object that nothing refers to any
\* more is free for the next object.

\* the objects that an entity or the snapshot refers to
Referenced(b) == ({b.of[i] : i \in DOMAIN b.of} \cup {b.best}) \ {0}

\* a new object: the least identity that is not in use
FreshId(b) ==
    CHOOSE id \in 1 .. Cardinality(DOMAIN b.heap) + 1 :
       /\ id \notin DOMAIN b.heap
       /\ \A other \in 1 .. id - 1 : other \in DOMAIN b.heap

\* the heap with a new object in it
Allocate(heap, id, holds) ==
    [o \in DOMAIN heap \cup {id} |-> IF o = id THEN holds ELSE heap[o]]

\* the objects nothing refers to are gone
Collect(b) == [b EXCEPT !.heap = [o \in Referenced(b) |-> b.heap[o]]]

\* a variant of MutatedBrain in which mutate() returns the network it was called on
MutatedBrainShared(parent, new) == parent

\* mutate(): the network returned is a new object with new arrays (map)
MutatedBrain(parent, new) == new

\* NeuralNetwork.clone(): the network returned is a new object with new arrays
ClonedBrain(original, new) == new

\* applyREINFORCELearning(): learningRate * avgReward, which is added in place
\* to the bias of the output layer; 0 when there is no recent outcome or the
\* average is below 0.01 (rewards are in units of 0.1)
Nudge(recentOutcomes) ==
    LET rewards == [k \in DOMAIN recentOutcomes |-> recentOutcomes[k].reward]
        sum == SumOver(rewards, DOMAIN recentOutcomes)
        count == Len(recentOutcomes)
    IN IF count = 0 THEN 0
       ELSE IF 10 * sum < count /\ 0 - 10 * sum < count THEN 0
       ELSE SignedRound(10 * sum, count)

\* makeDecision(): this.brain.forward(input) of the entity in slot i reads
\* the parameters of its network as they stand when it is called
ForwardParameters(b, i) == b.heap[b.of[i]]

\* this.brain.applyREINFORCE(..) of the entity in slot i: the object its
\* brain refers to is written in place
ApplyREINFORCE(b, i, recentOutcomes) ==
    [b EXCEPT !.heap[b.of[i]] = @ + Nudge(recentOutcomes)]

\* this.allTimeBest = deadEntity.clone(), the dead entity being in slot i
SnapshotBrain(b, i) ==
    LET freed == Collect([b EXCEPT !.best = 0])
        new == FreshId(freed)
    IN [freed EXCEPT !.best = ClonedBrain(b.of[i], new),
                     !.heap = Allocate(@, new, 0)]

\* this.entities[i] = parent.reproduce(): the brain of the new entity is what
\* the parent's brain.mutate() returns
ReproduceBrain(b, i, parent) ==
    LET new == FreshId(Collect([b EXCEPT !.of[i] = 0]))
    IN Collect([b EXCEPT !.of[i] = MutatedBrain(b.of[parent], new),
                         !.heap = Allocate(@, new, 0)])

\* this.entities[i] = new ConsciousEntity(..): a new network
NewBrain(b, i) ==
    LET freed == Collect([b EXCEPT !.of[i] = 0])
        new == FreshId(freed)
    IN [freed EXCEPT !.of[i] = new, !.heap = Allocate(@, new, 0)]

\* the brains of N new entities
FreshBrains(N) ==
    [of |-> [i \in 1 .. N |-> i], best |-> 0, heap |-> [o \in 1 .. N |-> 0]]

\* handleEntityDeath(): the brains after the snapshot and the replacement
BrainsAfterDeath(b, i, better, bestParent) ==
    LET kept == IF better THEN SnapshotBrain(b, i) ELSE b
    IN IF bestParent # 0 THEN ReproduceBrain(kept, i, bestParent)
       ELSE NewBrain(kept, i)

\* a variant of HandleEntityDeath that takes the dead entity out of the roster
HandleEntityDeathRemoving(ps, i, c) ==
    LET dead == ps.entities[i]
        better == NewBest(dead.fitness, ps.bestFitness)
        bestParent == FindBestLivingEntity(ps.entities)
        newEntity == IF bestParent # 0 THEN Reproduce(bestParent, c)
                     ELSE NewEntity(c)
    IN [ps EXCEPT !.totalDeaths = @ + 1,
                  !.bestFitness = IF better THEN dead.fitness ELSE @,
                  !.allTimeBest = IF better THEN <<Clone(dead)>> ELSE @,
                  !.entities = Splice(@, i),
                  !.generation = @ + 1]

\* handleEntityDeath(entityIndex) for slot i, c being the cell drawn for the
\* new entity
HandleEntityDeath(ps, i, c) ==
    LET dead == ps.entities[i]
        better == NewBest(dead.fitness, ps.bestFitness)
        bestParent == FindBestLivingEntity(ps.entities)
        newEntity == IF bestParent # 0 THEN Reproduce(bestParent, c)
                     ELSE NewEntity(c)
    IN [ps EXCEPT !.totalDeaths = @ + 1,
                  !.bestFitness = IF better THEN dead.fitness ELSE @,
                  !.allTimeBest = IF better THEN <<Clone(dead)>> ELSE @,
                  !.entities = [@ EXCEPT ![i] = newEntity],
                  !.brains = BrainsAfterDeath(@, i, better, bestParent),
                  !.generation = @ + 1]

\* this.currentSessionId = null
NoSessionId == "null"

\* the methods of DatabaseAPI, the collaborator step() hands to update()
DatabaseAPI ==
    {"checkStatus", "startSession", "endSession", "registerInitialPopulation",
     "recordEntityBirth", "recordEntityDeath", "storeNeuralNetwork",
     "recordEntityMetrics", "flushMetricsBatch", "recordPopulationStats",
     "recordEvolutionEvent", "startBatchFlushing", "getPopulationTrends",
     "getTopEntities", "getSessions", "exportCurrentSession"}

\* database.hook(..): calling what is no method of the collaborator throws a
\* TypeError.  The hooks that exist return before they do anything that can
\* fail (recordEntityMetrics) or are async and catch what they await.
HookThrows(hook) == hook \notin DatabaseAPI

\* what update() did at a slot it did not skip: whether the entity survived,
\* its fitness as update() left it, the entity itself if it died, the
\* energy and fitness of every slot at that moment (before a replacement is
\* made), the parameters that the forward pass of makeDecision() read and
\* the parameters as the entity's update() left them
LogEntry(ps, i) ==
    [slot |-> i,
     forward |-> ps.forward,
     parameters |-> ForwardParameters(ps.brains, i),
     survived |-> Survived(ps.entities[i]),
     fitness |-> ps.entities[i].fitness,
     best |-> ps.bestFitness,
     dead |-> IF Survived(ps.entities[i]) THEN <<>> ELSE <<ps.entities[i]>>,
     roster |-> [j \in DOMAIN ps.entities |->
                    [energy |-> ps.entities[j].energy,
                     fitness |-> ps.entities[j].fitness]]]

\* a variant of UpdateSlot that goes on to update the new entity of the slot
UpdateSlotTwice(ps, i, t, acts, births, n) ==
    LET entity == ps.entities[i]
        updated == [ps EXCEPT
            !.entities = [@ EXCEPT ![i] = UpdateEntity(entity, ps.energies, t, acts[i], n)],
            !.cores = ConsumeCores(ps.cores, ps.energies, entity.x, entity.y, t),
            !.energies = ConsumeEnergies(ps.energies, entity.x, entity.y)]
        logged == [updated EXCEPT !.log = Append(@, LogEntry(updated, i))]
        born == HandleEntityDeath(logged, i, births[i])
    IN IF entity.energy <= 0 THEN ps
       ELSE IF Survived(logged.entities[i]) THEN logged
       ELSE [born EXCEPT
               !.entities = [@ EXCEPT ![i] =
                   UpdateEntity(born.entities[i], born.energies, t, acts[i], n)]]

\* update(): the body of the loop for slot i.  ps holds the entities, the
\* counters and the world's cores and energies as the slots before i left
\* them; acts[i] is the action drawn, births[i] the cell of a new entity.
UpdateSlot(ps, i, t, acts, births, n) ==
    LET entity == ps.entities[i]
        after == UpdateEntity(entity, ps.energies, t, acts[i], n)
        \* const action = this.makeDecision(tick);
        \* this.applyREINFORCELearning(); this.executeAction(action)
        updated == [ps EXCEPT
            !.entities = [@ EXCEPT ![i] = after],
            !.forward = ForwardParameters(ps.brains, i),
            !.brains = ApplyREINFORCE(@, i, after.recentOutcomes),
            !.cores = ConsumeCores(ps.cores, ps.energies, entity.x, entity.y, t),
            !.energies = ConsumeEnergies(ps.energies, entity.x, entity.y)]
        logged == [updated EXCEPT !.log = Append(@, LogEntry(updated, i))]
        \* database && sessionId && survived: recordEntityMetrics, then, the
        \* memory holding an entry, storeEntityMemory
        hooks == IF logged.entities[i].memory # <<>>
                 THEN {"recordEntityMetrics", "storeEntityMemory"}
                 ELSE {"recordEntityMetrics"}
    IN IF entity.energy <= 0 THEN ps
       ELSE IF Survived(logged.entities[i])
            THEN IF ps.session /\ \E h \in hooks : HookThrows(h)
                 THEN [logged EXCEPT !.thrown = TRUE]
                 ELSE logged
       ELSE HandleEntityDeath(logged, i, births[i])

RECURSIVE UpdateFrom(_, _, _, _, _, _)
UpdateFrom(ps, i, t, acts, births, n) ==
    IF i > Len(ps.entities) \/ ps.thrown THEN ps
    ELSE UpdateFrom(UpdateSlot(ps, i, t, acts, births, n), i + 1, t, acts, births, n)

\* update(world, tick, database, sessionId) on the cores cs and the energies en
\* of the world; the loop ends where a hook throws
PopulationUpdate(cs, en, t, acts, births, n) ==
    UpdateFrom([entities |-> entities, cores |-> cs, energies |-> en,
                generation |-> generation, totalDeaths |-> totalDeaths,
                bestFitness |-> bestFitness, allTimeBest |-> allTimeBest,
                brains |-> brains,
                log |-> <<>>, forward |-> 0,
                session |-> currentSessionId # NoSessionId,
                thrown |-> FALSE],
               1, t, acts, births, n)

\* Sample draws of Math.floor(Math.random() * gridSize) for a new entity's cell
BirthCells(n) == {<<0, 0>>, <<n - 1, n - 1>>}

\* The draws of makeDecision().  In a world of one cell every action leads to
\* the same cell, and stay stands for all of them.
Decisions(n) == IF n = 1 THEN {Stay} ELSE ActionIndex

\* initializePopulation(): populationSize new entities
FreshEntities(N, n) == [1 .. N -> {NewEntity(c) : c \in BirthCells(n)}]

\* no PopulationManager is constructed
NoPopulation ==
    /\ populationSize = 0
    /\ entities = <<>>
    /\ generation = 0
    /\ totalDeaths = 0
    /\ bestFitness = 0
    /\ allTimeBest = <<>>
    /\ updateLog = <<>>
    /\ brains = FreshBrains(0)

\* new PopulationManager(N, n)
PopulationInit(N, n) ==
    /\ populationSize = N
    /\ entities \in FreshEntities(N, n)
    /\ generation = 0
    /\ totalDeaths = 0
    /\ bestFitness = 0
    /\ allTimeBest = <<>>
    /\ updateLog = <<>>
    /\ brains = FreshBrains(N)

\* reset(): the counters and the entities
ResetPopulation ==
    /\ generation' = 0
    /\ totalDeaths' = 0
    /\ bestFitness' = 0
    /\ allTimeBest' = <<>>
    /\ entities' \in FreshEntities(populationSize, gridSize)
    /\ updateLog' = <<>>
    /\ brains' = FreshBrains(populationSize)
    /\ UNCHANGED populationSize

\* the host's calls from outside the tick loop come after step HostStep of it
HostCall == populationSize > 0 /\ stepCalls = HostStep

\* PopulationManager.reset()
PopulationReset ==
    /\ HostCall
    /\ ResetPopulation
    /\ UNCHANGED <<worldVars, sessionVars, labVars>>

\* forceEvolution(): the slot of the first living entity of least fitness
Weakest(es) ==
    CHOOSE i \in Living(es) :
       \A j \in Living(es) :
          es[i].fitness < es[j].fitness \/ (es[i].fitness = es[j].fitness /\ i <= j)

\* forceEvolution()
ForceEvolution ==
    /\ HostCall
    /\ IF Living(entities) = {}
       THEN UNCHANGED <<entities, brains>>
       ELSE /\ \E c \in BirthCells(gridSize) :
                  entities' = [entities EXCEPT ![Weakest(entities)] =
                                  Reproduce(FindBestLivingEntity(entities), c)]
            /\ brains' = ReproduceBrain(brains, Weakest(entities),
                                        FindBestLivingEntity(entities))
    /\ UNCHANGED <<populationSize, generation, totalDeaths, bestFitness,
                   allTimeBest, updateLog>>
    /\ UNCHANGED <<worldVars, sessionVars, labVars>>

\* devTools.killRandomEntity(): a living entity's energy is set to 0
KillRandomEntity ==
    /\ HostCall
    /\ \E i \in Living(entities) : entities' = [entities EXCEPT ![i].energy = 0]
    /\ UNCHANGED <<populationSize, generation, totalDeaths, bestFitness,
                   allTimeBest, updateLog, brains>>
    /\ UNCHANGED <<worldVars, sessionVars, labVars>>

-----------------------------------------------------------------------------
(* ConsciousnessSimulation: the tick loop *)

\* step(): this.world.step(), then this.population.update(this.world,
\* this.world.tick, this.dbAPI, this.currentSessionId); what update() throws
\* leaves step() at once
SimulationStep ==
    /\ populationSize > 0
    /\ tick < MaxSimTick
    /\ \E d \in StepDraws, acts \in [Slots -> Decisions(gridSize)],
          births \in [Slots -> BirthCells(gridSize)] :
          \E r \in {StepResult(d[1], d[2], d[3])} :
          \E ps \in {PopulationUpdate(r.cores, r.energies, TickAfter, acts, births,
                                      gridSize)} :
             /\ StepFields(r)
             /\ cores' = ps.cores
             /\ energies' = ps.energies
             /\ entities' = ps.entities
             /\ generation' = ps.generation
             /\ totalDeaths' = ps.totalDeaths
             /\ bestFitness' = ps.bestFitness
             /\ allTimeBest' = ps.allTimeBest
             /\ updateLog' = ps.log
             /\ brains' = ps.brains
             /\ thrown' = ps.thrown
    /\ UNCHANGED <<populationSize, currentSessionId, isRunning, dbAPI, labVars>>

\* reset(): stop() while the loop is running, which closes the session; then
\* this.world.reset() and this.population.reset()
SimulationReset ==
    /\ populationSize > 0
    /\ \E w \in WorldSamples(gridSize), at \in Placements(gridSize) :
          Fresh(gridSize, w, at)
    /\ ResetPopulation
    /\ currentSessionId' \in {currentSessionId, NoSessionId}
    /\ thrown' = FALSE
    /\ UNCHANGED <<isRunning, dbAPI, labVars>>

\* start(): the promise of dbAPI.startSession(..) resolves with a session id
StartSession ==
    /\ populationSize > 0
    /\ stepCalls <= HostStep
    /\ currentSessionId = NoSessionId
    /\ currentSessionId' = "session"
    /\ UNCHANGED <<worldVars, popVars, thrown, isRunning, dbAPI, labVars>>

\* ---- start(), stop() and reset() with the requests to the server ----

\* a call of DatabaseAPI that awaits a response; sessionId is the one in the
\* body of the request, when it has one
Request(call, sessionId) == [call |-> call, sessionId |-> sessionId]

\* new DatabaseAPI(): currentSessionId null, nothing requested; the server
\* has no session
NoRequests ==
    [currentSessionId |-> NoSessionId, requests |-> {}, started |-> 0, ended |-> {}]

\* DatabaseManager.startSession(): the ids it makes, in the order it makes them
SessionIds ==
    <<"session_1", "session_2", "session_3", "session_4", "session_5", "session_6">>

\* dbAPI.startSession(..) up to its first await: the request is sent
StartSessionCall(api) ==
    [api EXCEPT !.requests = @ \cup {Request("startSession", NoSessionId)}]

\* dbAPI.endSession(..) up to the first response it waits for.  Without a
\* currentSessionId it returns at once.  await this.flushMetricsBatch(): with
\* metrics in the batch (batched) the flush sends them and is awaited; with
\* none the flush returns at once and endSession goes on, before any
\* response can arrive, to send its request with this.currentSessionId in the
\* body.
EndSessionCall(api, batched) ==
    IF api.currentSessionId = NoSessionId THEN api
    ELSE [api EXCEPT !.requests = @ \cup
             {IF batched THEN Request("flushMetricsBatch", NoSessionId)
              ELSE Request("endSession", api.currentSessionId)}]

\* start() with the session id cur held by the simulation: a session is
\* requested unless one is held
StartCall(api, cur) == IF cur = NoSessionId THEN StartSessionCall(api) ELSE api

\* stop() with the session id cur held by the simulation: the session is
\* ended through the API
StopCall(api, cur, batched) ==
    IF cur # NoSessionId THEN EndSessionCall(api, batched) ELSE api

\* the host calls start(), stop() and reset() while no request awaits its
\* response and fewer than MaxSessions sessions were started
HostQuiet == dbAPI.requests = {} /\ dbAPI.started < MaxSessions

\* start() while the loop is not running
SimulationStart ==
    /\ populationSize > 0
    /\ HostQuiet
    /\ ~isRunning
    /\ isRunning' = TRUE
    /\ dbAPI' = StartCall(dbAPI, currentSessionId)
    /\ UNCHANGED <<worldVars, popVars, currentSessionId, thrown, labVars>>

\* stop() while the loop is running
SimulationStop ==
    /\ populationSize > 0
    /\ HostQuiet
    /\ isRunning
    /\ isRunning' = FALSE
    /\ \E batched \in BOOLEAN : dbAPI' = StopCall(dbAPI, currentSessionId, batched)
    /\ currentSessionId' = NoSessionId
    /\ UNCHANGED <<worldVars, popVars, thrown, labVars>>

\* reset(): stop() if the loop is running, this.world.reset(),
\* this.population.reset(), and start() if the loop was running
SimulationRestart ==
    /\ populationSize > 0
    /\ HostQuiet
    /\ \E w \in WorldSamples(gridSize), at \in Placements(gridSize) :
          Fresh(gridSize, w, at)
    /\ ResetPopulation
    /\ thrown' = FALSE
    /\ IF isRunning
       THEN /\ \E batched \in BOOLEAN :
                  dbAPI' = StartCall(StopCall(dbAPI, currentSessionId, batched),
                                     NoSessionId)
            /\ currentSessionId' = NoSessionId
       ELSE UNCHANGED <<dbAPI, currentSessionId>>
    /\ UNCHANGED <<isRunning, labVars>>

\* the response to /api/simulation/session/start arrives: the server has
\* started a session; startSession() keeps its id and returns it, and the
\* callback of start() keeps it in the simulation
StartSessionResolves ==
    /\ Request("startSession", NoSessionId) \in dbAPI.requests
    /\ LET sessionId == SessionIds[dbAPI.started + 1]
       IN /\ dbAPI' = [dbAPI EXCEPT
                !.requests = @ \ {Request("startSession", NoSessionId)},
                !.started = @ + 1,
                !.currentSessionId = sessionId]
          /\ currentSessionId' = sessionId
    /\ UNCHANGED <<worldVars, popVars, thrown, isRunning, labVars>>

\* the flush that endSession() awaits is done: endSession() sends its
\* request, with the currentSessionId the API holds now in the body
FlushResolves ==
    /\ Request("flushMetricsBatch", NoSessionId) \in dbAPI.requests
    /\ dbAPI' = [dbAPI EXCEPT
          !.requests = (@ \ {Request("flushMetricsBatch", NoSessionId)})
                          \cup {Request("endSession", dbAPI.currentSessionId)}]
    /\ UNCHANGED <<worldVars, popVars, currentSessionId, thrown, isRunning, labVars>>

\* the response to /api/simulation/session/end arrives: the server has ended
\* the session named in the body (DatabaseManager.endSession: UPDATE .. WHERE
\* id = ?), and endSession() sets this.currentSessionId = null
EndSessionResolves ==
    /\ \E r \in dbAPI.requests :
          /\ r.call = "endSession"
          /\ dbAPI' = [dbAPI EXCEPT
                !.requests = @ \ {r},
                !.ended = @ \cup ({r.sessionId} \ {NoSessionId}),
                !.currentSessionId = NoSessionId]
    /\ UNCHANGED <<worldVars, popVars, currentSessionId, thrown, isRunning, labVars>>

\* the constructor: this.currentSessionId = null, this.isRunning = false
NoSession ==
    /\ currentSessionId = NoSessionId
    /\ thrown = FALSE
    /\ isRunning = FALSE
    /\ dbAPI = NoRequests

\* no network is held outside the entities
NoNetwork ==
    network = <<>> /\ serialized = <<>> /\ restored = <<>> /\ mutated = <<>>

\* no observer is set in the world apart from the population
NoObserver == vision = <<>>

\* no second run is set beside the simulation
NoRuns == runs = <<>> /\ NoNetwork /\ NoObserver

-----------------------------------------------------------------------------
(* ConsciousEntity: the life force and the memory summary, which read the clock *)

\* 1000 * Math.sin(a) for an angle a >= 0 in units of 0.01 rad, by Bhaskara's
\* formula sin x = 16 x (pi - x) / (5 pi^2 - 4 x (pi - x)) on [0, pi], which is
\* within 0.002 of the sine
Sin1000(a) ==
    LET r == a % 628
        x == IF r <= 314 THEN r ELSE r - 314
        half == RoundDiv(16000 * x * (314 - x), 5 * 314 * 314 - 4 * x * (314 - x))
    IN IF r <= 314 THEN half ELSE 0 - half

\* Math.abs(a.x - x) + Math.abs(a.y - y)
Manhattan(a, x, y) ==
    (IF a.x >= x THEN a.x - x ELSE x - a.x) + (IF a.y >= y THEN a.y - y ELSE y - a.y)

\* calculateLifeForce(x, y, otherEntities) of the entity self, in units of
\* 0.01, now being what Date.now() reads (in ms):
\*   min(0.8, 0.2 * k) + 0.2 * sum(energy / 100 / (1 + 0.5 * distance))
\*   + 0.05 * sin((x * y + now * 0.001) * 0.1),  clamped to [0, 1]
CalculateLifeForce(self, x, y, others, now, n) ==
    LET nearby == {j \in DOMAIN others :
                      /\ others[j].energy > 0
                      /\ ~(others[j].x = self.x /\ others[j].y = self.y)
                      /\ Manhattan(others[j], x, y) <= 2}
        \* energy is in units of 0.5: 0.2 * (e / 200) / (1 + d / 2) * 100
        \* = e / (5 * (2 + d)) = e * (12 / (2 + d)) / 60
        influence == [j \in nearby |->
                         others[j].energy * (12 \div (2 + Manhattan(others[j], x, y)))]
        wave == Sin1000(10 * x * y + RoundDiv(now, 100))
        field5 == Min(80, 20 * Cardinality(nearby))
                  + RoundDiv(SumOver(influence, nearby), 60)
                  + SignedRound(5 * wave, 1000)
    IN IF x < 0 \/ x >= n \/ y < 0 \/ y >= n THEN 0
       ELSE IF nearby = {} THEN 0
       ELSE Max(0, Min(100, field5))

\* getMemorySummary(): summary[0] of the latest memory, (Date.now() -
\* mem.tick) / 1000, in units of 0.001
TimeSinceMemory(memory, now) ==
    IF memory = <<>> THEN 0 ELSE now - memory[Len(memory)].tick

\* what Date.now() may read once it has read now
ClockReadings(now) == {c \in {0, LateClock} : c >= now}

\* the draws of makeDecision() in the two runs: right and stay
TwinDecisions == {3, Stay}

\* Population.update(world, tick) of one run, from slot i on, in a world
\* without energy manifestations: each living entity senses the life force
\* at its own cell (the vision point of distance 0, which addMemory records),
\* is updated, and reads the clock again for its policy input.  No entity
\* dies within MaxTwinTick updates.
RECURSIVE RunFrom(_, _, _, _, _)
RunFrom(run, i, acts, now, n) ==
    IF i > Len(run.entities) THEN run
    ELSE LET e == run.entities[i]
             life == CalculateLifeForce(e, e.x, e.y, run.entities, now, n)
             after == UpdateEntity(e, <<>>, run.tick, acts[i], n)
             seen == [field5 |-> life, since |-> TimeSinceMemory(after.memory, now)]
         IN IF e.energy <= 0 THEN RunFrom(run, i + 1, acts, now, n)
            ELSE RunFrom([run EXCEPT !.entities[i] = after,
                                     !.sensed[i] = Append(@, seen)],
                         i + 1, acts, now, n)

\* one tick of a run: the tick advances and update() reads the clock as now
RunUpdate(run, acts, now, n) ==
    RunFrom([run EXCEPT !.tick = @ + 1, !.now = now], 1, acts, now, n)

\* two runs are set up from one population of two entities
TwinInit(n) ==
    \E es \in FreshEntities(2, n) :
       runs = [r \in {1, 2} |->
                 [entities |-> es, tick |-> 0, now |-> 0,
                  sensed |-> [i \in DOMAIN es |-> <<>>]]]

\* both runs take one tick with the same draws, each reading its own clock
TwinUpdate ==
    /\ runs # <<>>
    /\ runs[1].tick < MaxTwinTick
    /\ \E acts \in [DOMAIN runs[1].entities -> TwinDecisions],
          now1 \in ClockReadings(runs[1].now), now2 \in ClockReadings(runs[2].now) :
          runs' = <<RunUpdate(runs[1], acts, now1, WorldSize),
                    RunUpdate(runs[2], acts, now2, WorldSize)>>
    /\ UNCHANGED <<worldVars, popVars, sessionVars, netVars, vision>>

-----------------------------------------------------------------------------
(* NeuralNetwork *)

\* Weights, biases, the mutation strength and the mutation rate are held in
\* units of 0.01; a Math.random() draw is held in units of 0.01 as well.

\* the sizes [inputSize, ...hiddenSizes, outputSize] of the networks built
Architectures == {<<2, 1>>, <<1, 2, 2>>, <<2, 1, 2, 1>>}

\* the streams of draws a network is built or mutated with
Streams == 0 .. NumStreams - 1

\* gaussianRandom(): the draw taken for row j, column k of layer l (column 0
\* being the bias) in stream g; one of -1, -0.5, 0, 0.5, 1
GaussianRandom(g, l, j, k) == 50 * (((g + 3 * l + 2 * j + k) % 5) - 2)

\* Math.random(): the draw taken for the same parameter in stream u: always
\* 0, always 0.5, or 0 and 0.99 in turn
Random(u, l, j, k) ==
    IF u % 3 = 0 THEN 0
    ELSE IF u % 3 = 1 THEN 50
    ELSE IF (l + j + k) % 2 = 0 THEN 0 ELSE 99

\* new NeuralNetwork(inputSize, hiddenSizes, outputSize), sizes being
\* [inputSize, ...hiddenSizes, outputSize]: randomMatrix and randomArray
\* with std 0.1
NewNetwork(sizes, g) ==
    [layers |->
        [l \in 1 .. Len(sizes) - 1 |->
            [weights |-> [j \in 1 .. sizes[l + 1] |->
                            [k \in 1 .. sizes[l] |->
                               SignedRound(GaussianRandom(g, l, j, k) * 10, 100)]],
             biases |-> [j \in 1 .. sizes[l + 1] |->
                            SignedRound(GaussianRandom(g, l, j, 0) * 10, 100)]]]]

\* getArchitecture()
GetArchitecture(net) ==
    LET info == [l \in DOMAIN net.layers |->
                    LET layer == net.layers[l]
                    IN [neurons |-> Len(layer.weights),
                        inputs |-> Len(layer.weights[1]),
                        weights |-> Len(layer.weights) * Len(layer.weights[1]),
                        biases |-> Len(layer.biases),
                        parameters |-> Len(layer.weights) * Len(layer.weights[1])
                                       + Len(layer.biases)]]
        count == [l \in DOMAIN net.layers |-> info[l].parameters]
    IN [layers |-> Len(net.layers),
        structure |-> info,
        totalParameters |-> SumOver(count, DOMAIN net.layers)]

\* serialize(), Date.now() reading now
Serialize(net, now) ==
    [layers |-> [l \in DOMAIN net.layers |->
                    [weights |-> net.layers[l].weights,
                     biases |-> net.layers[l].biases]],
     architecture |-> GetArchitecture(net),
     version |-> "1.0",
     serializedAt |-> now]

\* deserialize(): !data.layers || !data.architecture, of data whose fields
\* are objects when they are there
Invalid(data) == "layers" \notin DOMAIN data \/ "architecture" \notin DOMAIN data

\* structure.slice(1, -1) in the place of structure.slice(0, -1)
HiddenSizesInner(structure) ==
    [l \in 1 .. Len(structure) - 2 |-> structure[l + 1].neurons]

\* deserialize(): structure.slice(0, -1).map(layer => layer.neurons)
HiddenSizes(structure) ==
    [l \in 1 .. Len(structure) - 1 |-> structure[l].neurons]

\* deserialize(): the layers of the network built from the declared
\* structure with the draws g, each replaced by the layer of the data at
\* the same index, if there is one
ReplaceLayers(fresh, layers) ==
    [l \in DOMAIN fresh.layers |->
        IF l <= Len(layers)
        THEN [weights |-> layers[l].weights, biases |-> layers[l].biases]
        ELSE fresh.layers[l]]

\* NeuralNetwork.deserialize(data): what it throws ("" when it returns), and
\* the network it returns
Deserialize(data, g) ==
    IF Invalid(data)
    THEN [threw |-> "Invalid serialized network data", network |-> <<>>]
    ELSE LET structure == data.architecture.structure
         IN IF structure = <<>>
            THEN [threw |-> "TypeError", network |-> <<>>]
            ELSE LET sizes == <<structure[1].inputs>> \o HiddenSizes(structure)
                              \o <<structure[Len(structure)].neurons>>
                     fresh == NewNetwork(sizes, g)
                 IN [threw |-> "",
                     network |-> [layers |-> ReplaceLayers(fresh, data.layers)]]

\* the mutation rates and strengths mutate() is called with: a rate of 0,
\* of 0.1 (the population's own) and of 1
MutationRates == {0, 10, 100}

MutationStrengths == {10, 100}

\* Math.random() <= mutationRate in the place of <
MutatesAtRate(draw, mutationRate) == draw <= mutationRate

\* mutate(): Math.random() < mutationRate
Mutates(draw, mutationRate) == draw < mutationRate

\* mutate(mutationRate, mutationStrength) with the streams u of Math.random()
\* and g of gaussianRandom()
Mutate(net, mutationRate, mutationStrength, u, g) ==
    LET changed(w, l, j, k) ==
            IF Mutates(Random(u, l, j, k), mutationRate)
            THEN w + SignedRound(GaussianRandom(g, l, j, k) * mutationStrength, 100)
            ELSE w
    IN [layers |->
          [l \in DOMAIN net.layers |->
              [weights |-> [j \in DOMAIN net.layers[l].weights |->
                              [k \in DOMAIN net.layers[l].weights[j] |->
                                 changed(net.layers[l].weights[j][k], l, j, k)]],
               biases |-> [j \in DOMAIN net.layers[l].biases |->
                              changed(net.layers[l].biases[j], l, j, 0)]]]]

\* the parameters of a network: <<l, j, k>> is weight k of row j of layer l,
\* and <<l, j, 0>> is bias j of layer l
Parameters(net) ==
    UNION {UNION {{<<l, j, k>> : k \in DOMAIN net.layers[l].weights[j]}
                     : j \in DOMAIN net.layers[l].weights}
              \cup {<<l, j, 0>> : j \in DOMAIN net.layers[l].biases}
              : l \in DOMAIN net.layers}

Parameter(net, p) ==
    IF p[3] = 0 THEN net.layers[p[1]].biases[p[2]]
    ELSE net.layers[p[1]].weights[p[2]][p[3]]

\* calculateSimilarity(other) of two networks of one shape, in units of
\* 0.0001: 0 when the layer counts differ, else
\* max(0, 1 - totalDifference / totalParameters)
CalculateSimilarity(net, other) ==
    IF Len(net.layers) # Len(other.layers) THEN 0
    ELSE LET difference == [p \in Parameters(net) |->
                               LET d == Parameter(net, p) - Parameter(other, p)
                               IN IF d >= 0 THEN d ELSE 0 - d]
             totalDifference == SumOver(difference, Parameters(net))
             totalParameters == Cardinality(Parameters(net))
         IN Max(0, 10000 - RoundDiv(100 * totalDifference, totalParameters))

\* what stored data may read back as: the data itself, or the data with its
\* last layer missing, with a layer more, with a wider first row of weights,
\* with a bias less, or without its layer list
StoredData(data) ==
    {data,
     [data EXCEPT !.layers = SubSeq(@, 1, Len(@) - 1)],
     [data EXCEPT !.layers = Append(@, @[Len(@)])],
     [data EXCEPT !.layers[1].weights[1] = Append(@, 0)],
     [data EXCEPT !.layers[1].biases = Tail(@)],
     [field \in DOMAIN data \ {"layers"} |-> data[field]]}

\* a network is built
NetworkInit ==
    /\ \E sizes \in Architectures, g \in Streams : network = NewNetwork(sizes, g)
    /\ serialized = <<>>
    /\ restored = <<>>
    /\ mutated = <<>>

\* network.serialize()
NetworkSerialize ==
    /\ network # <<>>
    /\ \E now \in ClockReadings(0) : serialized' = <<Serialize(network, now)>>
    /\ UNCHANGED <<worldVars, popVars, sessionVars, runs, vision>>
    /\ UNCHANGED <<network, restored, mutated>>

\* NeuralNetwork.deserialize(data) of the data that was stored
NetworkDeserialize ==
    /\ serialized # <<>>
    /\ \E data \in StoredData(serialized[1]), g \in Streams :
          restored' = [data |-> data, result |-> Deserialize(data, g)]
    /\ UNCHANGED <<worldVars, popVars, sessionVars, runs, vision>>
    /\ UNCHANGED <<network, serialized, mutated>>

\* network.mutate(mutationRate, mutationStrength), and the similarity of the
\* network and the result
NetworkMutate ==
    /\ network # <<>>
    /\ \E mutationRate \in MutationRates, mutationStrength \in MutationStrengths,
          u \in Streams, g \in Streams :
          LET result == Mutate(network, mutationRate, mutationStrength, u, g)
          IN mutated' = [mutationRate |-> mutationRate,
                         mutationStrength |-> mutationStrength,
                         draws |-> u,
                         network |-> result,
                         similarity |-> CalculateSimilarity(network, result)]
    /\ UNCHANGED <<worldVars, popVars, sessionVars, runs, vision>>
    /\ UNCHANGED <<network, serialized, restored>>

-----------------------------------------------------------------------------
(* WorldPhysics.getRawPhysicalProperties() and ConsciousEntity.updateVision() *)

\* 1000 * Math.cos(a) for an angle a >= 0 in units of 0.01 rad
Cos1000(a) == Sin1000(a + 157)

\* cores.find(core => core.x === x && core.y === y): the state of the first
\* core on the cell, encoded: none 0, dormant 0.3, incubated 0.6, bloomed 0.9
CoreValue(x, y) ==
    LET here == {i \in DOMAIN cores : cores[i].x = x /\ cores[i].y = y}
        first == CHOOSE i \in here : \A j \in here : i <= j
    IN IF here = {} THEN 0
       ELSE IF cores[first].state = "dormant" THEN 30
       ELSE IF cores[first].state = "incubated" THEN 60
       ELSE IF cores[first].state = "bloomed" THEN 90
       ELSE 0

\* energies.some(energy => energy.x === x && energy.y === y && energy.active)
HasEnergy(x, y) ==
    \E k \in DOMAIN energies :
       energies[k].x = x /\ energies[k].y = y /\ energies[k].active

\* the neighbours of (x, y) that lie on the grid; the edge is not wrapped
GridNeighbours(x, y) ==
    {c \in Cells(gridSize) :
        /\ c # <<x, y>>
        /\ c[1] - x \in {-1, 0, 1}
        /\ c[2] - y \in {-1, 0, 1}}

\* baseConfidence of a distance
BaseConfidence(distance) ==
    IF distance = 0 THEN 100
    ELSE IF distance = 1 THEN 90
    ELSE IF distance = 2 THEN 70
    ELSE IF distance = 3 THEN 50
    ELSE IF distance = 4 THEN 30
    ELSE 10

\* Math.max(0.1, Math.min(1.0, observerEnergy / 100.0)), the energy being in
\* units of 0.5
EnergyMultiplier(observerEnergy) == Max(10, Min(100, observerEnergy \div 2))

\* Sample draws of Math.random() - 0.5 for the noise of the five fields
NoiseDraws == {[f \in 1 .. 5 |-> r] : r \in {-50, 0, 49}}

\* getRawPhysicalProperties() past its bounds test: the fields of the cell
\* (x, y) of the grid as an observer of the given energy sees them from the
\* given distance, in units of 0.01
PhysicalProperties(x, y, distance, observerEnergy, draws) ==
    LET temp == temperature[<<x, y>>]
        amount == catalyser[<<x, y>>]
        coreValue == CoreValue(x, y)
        energyValue == IF HasEnergy(x, y) THEN 100 ELSE 0
        base1 == RoundDiv(7 * temp + 3 * amount, 10)
        product == RoundDiv(temp * amount, 100)
        around == [c \in GridNeighbours(x, y) |-> temperature[c] + catalyser[c]]
        influence == SumOver(around, GridNeighbours(x, y))
        count == Cardinality(GridNeighbours(x, y))
        multiplier == EnergyMultiplier(observerEnergy)
        finalConfidence == RoundDiv(BaseConfidence(distance) * multiplier, 100)
        totalNoise == IF distance > 0 \/ observerEnergy < InitialEnergy
                      THEN RoundDiv(2 * (100 - finalConfidence)
                                    + 3 * (100 - multiplier), 10)
                      ELSE 0
        noise(f) == SignedRound(draws[f] * totalNoise, 100)
        field1 == base1 + SignedRound(base1 * Sin1000(10 * tick), 10000) + noise(1)
        field2 == RoundDiv(6 * coreValue + 4 * product, 10)
                  + SignedRound(Cos1000(5 * tick), 100) + noise(2)
        field3 == RoundDiv(product * (100 + coreValue), 100)
                  + RoundDiv(8 * energyValue, 10)
                  + SignedRound(Sin1000(10 * (x + y + tick)), 100) + noise(3)
        field4 == RoundDiv(5 * temp + 3 * amount + 2 * coreValue, 10)
                  + (IF count > 0 THEN RoundDiv(influence, 5 * count) ELSE 0)
                  + noise(4)
        field5 == noise(5)
    IN [field1 |-> Max(0, Min(100, field1)),
        field2 |-> Max(0, Min(100, field2)),
        field3 |-> Max(0, Min(100, field3)),
        field4 |-> Max(0, Min(100, field4)),
        field5 |-> Max(0, Min(100, field5)),
        confidence |-> finalConfidence]

\* a variant of GetRawPhysicalProperties that wraps the coordinates round the
\* torus, as the moves of the entities are wrapped
GetRawPhysicalPropertiesWrapped(x, y, distance, observerEnergy, draws) ==
    PhysicalProperties(Wrap(x + VisionRadius * gridSize, gridSize),
                       Wrap(y + VisionRadius * gridSize, gridSize),
                       distance, observerEnergy, draws)

\* getRawPhysicalProperties(x, y, distance, observerEnergy)
GetRawPhysicalProperties(x, y, distance, observerEnergy, draws) ==
    IF x < 0 \/ x >= gridSize \/ y < 0 \/ y >= gridSize
    THEN [field1 |-> 0, field2 |-> 0, field3 |-> 0, field4 |-> 0, field5 |-> 0,
          confidence |-> 0]
    ELSE PhysicalProperties(x, y, distance, observerEnergy, draws)

\* updateVision(world, otherEntities): the points are pushed for dx from
\* -visionRadius to visionRadius and, within, for dy likewise; field5 is
\* replaced by the life force
UpdateVision(self, others, draws, now) ==
    LET side == 2 * VisionRadius + 1
        point(k) ==
            LET dx == ((k - 1) \div side) - VisionRadius
                dy == ((k - 1) % side) - VisionRadius
                distance == (IF dx >= 0 THEN dx ELSE 0 - dx)
                            + (IF dy >= 0 THEN dy ELSE 0 - dy)
                properties == GetRawPhysicalProperties(self.x + dx, self.y + dy,
                                                       distance, self.energy, draws)
            IN [relativeX |-> dx, relativeY |-> dy, distance |-> distance,
                field1 |-> properties.field1, field2 |-> properties.field2,
                field3 |-> properties.field3, field4 |-> properties.field4,
                field5 |-> CalculateLifeForce(self, self.x + dx, self.y + dy,
                                              others, now, gridSize),
                confidence |-> properties.confidence]
    IN [k \in 1 .. side * side |-> point(k)]

\* Sample energies of the observer: 100, at which its own cell is seen
\* without noise, and 20
ObserverEnergies == {InitialEnergy, LowEnergy}

\* an entity alone in the world, on a corner cell, looks around
Sense ==
    /\ gridSize > 0
    /\ populationSize = 0
    /\ \E c \in BirthCells(gridSize), energy \in ObserverEnergies,
          draws \in NoiseDraws :
          LET self == [NewEntity(c) EXCEPT !.energy = energy]
          IN vision' = [x |-> self.x, y |-> self.y, energy |-> energy,
                        points |-> UpdateVision(self, <<>>, draws, 0)]
    /\ UNCHANGED <<worldVars, popVars, sessionVars, runs, netVars>>

-----------------------------------------------------------------------------
(* Specifications *)

\* The world on its own: step(), consumeEnergy() and reset() in any order
InitWorld == WorldInit(WorldSize) /\ NoPopulation /\ NoSession /\ NoRuns

NextWorld == Step \/ ConsumeEnergy \/ Reset

SpecWorld == InitWorld /\ [][NextWorld]_vars

\* The simulation without a persistence session (the database is not
\* connected, or step() is driven by the space key and start() never ran): a
\* population of 1 or MaxPop entities in a world of one cell, driven by the
\* tick loop and by the host's calls
InitSim ==
    /\ WorldInit(SimSize)
    /\ \E N \in {1, MaxPop} : PopulationInit(N, SimSize)
    /\ NoSession
    /\ NoRuns

NextSim ==
    \/ SimulationStep
    \/ SimulationReset
    \/ PopulationReset
    \/ ForceEvolution
    \/ KillRandomEntity

SpecSim == InitSim /\ [][NextSim]_vars

\* The simulation started with start(): the tick loop, and the persistence
\* session opening during the first steps
NextSession == SimulationStep \/ StartSession

SpecSession == InitSim /\ [][NextSession]_vars

\* Two runs of one population of two entities on a grid of WorldSize cells a
\* side that holds no energy manifestation
InitTwin ==
    /\ NoWorld /\ NoPopulation /\ NoSession
    /\ TwinInit(WorldSize)
    /\ NoNetwork /\ NoObserver

NextTwin == TwinUpdate

SpecTwin == InitTwin /\ [][NextTwin]_vars

\* The world on its own with one observer that looks around between the
\* steps; of the sample worlds, the two whose temperature draws no noise
InitSense == InitWorld /\ noiseLeft = 0

\* step() of the world the observer looks at
SenseStep == tick < MaxSenseTick /\ Step

NextSense == SenseStep \/ Sense

SpecSense == InitSense /\ [][NextSense]_vars

\* The simulation's loop switched on and off by the host, with the database
\* connected: start(), stop() and reset(), and the responses of the server
\* in any order
InitRestart ==
    /\ WorldInit(SimSize)
    /\ \E N \in {1, MaxPop} : PopulationInit(N, SimSize)
    /\ NoSession
    /\ NoRuns

NextRestart ==
    \/ SimulationStart
    \/ SimulationStop
    \/ SimulationRestart
    \/ StartSessionResolves
    \/ FlushResolves
    \/ EndSessionResolves

SpecRestart == InitRestart /\ [][NextRestart]_vars

\* One network on its own: serialize(), deserialize() and mutate()
InitNet ==
    /\ NoWorld /\ NoPopulation /\ NoSession
    /\ runs = <<>> /\ NoObserver
    /\ NetworkInit

NextNet == NetworkSerialize \/ NetworkDeserialize \/ NetworkMutate

SpecNet == InitNet /\ [][NextNet]_vars

-----------------------------------------------------------------------------
(* Claims about the world *)

\* the entries of the energies list that core id created
Own(en, id) == SelectSeq(en, LAMBDA e : e.coreId = id)

\* the step from a to b is no step, or one step along the cycle
CycleStep(a, b) ==
    \/ a = b
    \/ a = "dormant" /\ b = "incubated"
    \/ a = "incubated" /\ b = "bloomed"
    \/ a = "bloomed" /\ b = "dormant"

\* C2: over step() and consumeEnergy() calls (reset() aside, which sets
\* stepCalls back to 0) every change of a core's state is dormant -> incubated,
\* incubated -> bloomed or bloomed -> dormant, and one step() advances a core
\* by at most one of them.
C2_CoreCycle ==
    [][(stepCalls' # 0 \/ stepCalls = 0) =>
          \A i \in CoreIds : CycleStep(cores[i].state, cores'[i].state)]_vars

\* C2 witness: a core that went round the whole cycle: it is dormant again
\* and carries the tick of its bloom.
C2_Witness ==
    \E i \in CoreIds : cores[i].state = "dormant" /\ cores[i].bloomTime > 0

\* C3: after n step() calls since construction or reset(), phase is emit
\* exactly when n is even, and tick is floor(n / 2).
C3_PhaseTick ==
    /\ (phase = "emit") <=> (stepCalls % 2 = 0)
    /\ tick = stepCalls \div 2

\* C3 witness: three calls in: the phase is collect and tick is 1.
C3_Witness == stepCalls = 3 /\ phase = "collect" /\ tick = 1

\* C4: every temperature cell is in [0, 1], every lower catalyser cell is
\* >= 0 and every upper catalyser cell is in [0, 2].
C4_FieldRanges ==
    \A c \in Cells(gridSize) :
       /\ temperature[c] >= 0 /\ temperature[c] <= TempMax
       /\ catalyser[c] >= 0
       /\ upperCatalyser[c] >= 0 /\ upperCatalyser[c] <= UpperMax

\* C4 witness: right after a collect-phase redistribution that filled a cell
\* of the upper catalyser to 2 and in which a core released its 0.1.
C4_Witness ==
    /\ phase = "emit" /\ stepCalls > 0
    /\ \E c \in Cells(gridSize) : upperCatalyser[c] = UpperMax
    /\ \E c \in Cells(gridSize) : catalyser[c] = Release

\* C10, for core i in one step(): a dormant core whose cell is read with a
\* lower catalyser of 0.25 becomes incubated; while the temperature read at an
\* incubated core's cell is above 0.2 its count of warm updates grows by one;
\* it blooms on the fifth, and then the energies list holds exactly one entry
\* of this core, active, created now, at the core's coordinates; before the
\* bloom it holds none.
C10Step(i) ==
    LET p == <<cores'[i].x, cores'[i].y>>
        seeded == /\ cores[i].state = "dormant" /\ phase = "emit"
                  /\ catalyser[p] + upperCatalyser[p] = 25
        k == IF cores[i].state = "incubated" THEN cores[i].consecutiveHighTemp
             ELSE 0
        own == Own(energies', cores[i].id)
    IN /\ seeded => cores'[i].state \in {"incubated", "bloomed"}
       /\ ((seeded \/ cores[i].state = "incubated") /\ temperature'[p] > Threshold) =>
             /\ cores'[i].consecutiveHighTemp = k + 1
             /\ cores'[i].state = IF k + 1 = BloomCount THEN "bloomed" ELSE "incubated"
             /\ k + 1 < BloomCount => Len(own) = 0
             /\ k + 1 = BloomCount =>
                   /\ Len(own) = 1
                   /\ own[1] = [x |-> cores'[i].x, y |-> cores'[i].y,
                                createdAt |-> tick', active |-> TRUE,
                                coreId |-> cores[i].id]

\* C10: a dormant core whose cell has a lower catalyser of 0.25 and whose
\* local temperature stays above 0.2 goes dormant -> incubated -> bloomed, and
\* at the moment it blooms exactly one active energy manifestation of it
\* exists, at its coordinates.
C10_SeededBloom ==
    [][stepCalls' = stepCalls + 1 => \A i \in CoreIds : C10Step(i)]_vars

\* C10 witness: the fifth step() of a world whose core at (0, 0) was seeded
\* with 0.25 by the first: the core has just bloomed and its manifestation is
\* the one entry at (0, 0).
C10_Witness ==
    /\ stepCalls = 5
    /\ \E i \in CoreIds :
          /\ cores[i].state = "bloomed" /\ cores[i].incubationTime = 0
          /\ cores[i].bloomTime = tick
          /\ cores[i].x = 0 /\ cores[i].y = 0
          /\ Len(Own(energies, cores[i].id)) = 1
          /\ Len(SelectSeq(energies, LAMBDA e : e.x = 0 /\ e.y = 0 /\ e.active)) = 1

-----------------------------------------------------------------------------
(* Claims about the population *)

\* the transitions of the tick loop: world.step(), then population.update()
IsUpdate == stepCalls' = stepCalls + 1

\* the entries of the latest update() in which the entity died
Deaths(log) == {k \in DOMAIN log : ~log[k].survived}

\* a slot holds an entity that no update() has touched yet
Newborn(e) == e.age = 0 /\ e.energy = InitialEnergy /\ e.memory = <<>>

\* C1: the roster has exactly populationSize slots in every state, whatever
\* updates, forced evolutions, kills and resets led to it.
C1_RosterSize == Len(entities) = populationSize

\* C1 witness: a full-size roster after deaths were replaced in it.
C1_Witness ==
    /\ populationSize = MaxPop /\ Len(entities) = MaxPop
    /\ totalDeaths > 1
    /\ \E i \in DOMAIN entities : entities[i].parent # 0

\* C5: fitness = age + totalEnergyGained in every slot of the roster, and in
\* the best-ever snapshot: after every update(), for new and bred entities.
C5_Fitness ==
    /\ \A i \in DOMAIN entities :
          entities[i].fitness = entities[i].age + entities[i].totalEnergyGained
    /\ \A k \in DOMAIN allTimeBest :
          allTimeBest[k].fitness = allTimeBest[k].age + allTimeBest[k].totalEnergyGained

\* C5 witness: an entity that has aged and eaten, next to one bred from it
\* that no update() has touched.
C5_Witness ==
    \E i, j \in DOMAIN entities :
       /\ entities[i].age > 0 /\ entities[i].totalEnergyGained > 0
       /\ entities[i].fitness = entities[i].age + entities[i].totalEnergyGained
       /\ entities[j].parent = i /\ Newborn(entities[j]) /\ entities[j].fitness = 0

\* C6, as claimed: a slot that holds an entity with energy 0 when update() is
\* called holds a new entity when the call returns, and totalDeaths and
\* generation have grown.
C6_DeadOnEntryReplaced ==
    [][IsUpdate =>
          \A i \in DOMAIN entities :
             entities[i].energy = 0 =>
                /\ Newborn(entities'[i])
                /\ totalDeaths' >= totalDeaths + 1
                /\ generation' >= generation + 1]_vars

\* C7, for one update(): the slots it handles are the slots living on entry,
\* each once and in index order; a survivor has aged by one; where the
\* entity died the slot holds, on return, a new entity that no update() has
\* touched, and every slot handled later saw that new entity in the roster;
\* a roster living on entry is living on return.
C7Update ==
    LET log == updateLog'
    IN /\ \A k, l \in DOMAIN log : k < l => log[k].slot < log[l].slot
       /\ {log[k].slot : k \in DOMAIN log} = Living(entities)
       /\ \A k \in DOMAIN log :
             IF log[k].survived
             THEN entities'[log[k].slot].age = entities[log[k].slot].age + 1
             ELSE /\ Newborn(entities'[log[k].slot])
                  /\ \A l \in DOMAIN log :
                        l > k => log[l].roster[log[k].slot] =
                                    [energy |-> InitialEnergy, fitness |-> 0]
       /\ \A i \in DOMAIN entities : i \notin Living(entities) =>
             entities'[i] = entities[i]
       /\ Living(entities) = DOMAIN entities => Living(entities') = DOMAIN entities

\* C7: within one update() every slot is processed at most once and in index
\* order, a replacement is installed before the next slot is processed and is
\* not itself updated in that call, and a roster that was living on entry is
\* living on return.
C7_OnePass == [][IsUpdate => C7Update]_vars

\* C7 witness: an update() in which the entity of one slot died and a later
\* slot was processed after it, the new entity still untouched on return.
C7_Witness ==
    \E k, l \in DOMAIN updateLog :
       /\ k < l /\ ~updateLog[k].survived /\ updateLog[l].survived
       /\ Newborn(entities[updateLog[k].slot])
       /\ entities[updateLog[l].slot].age > 1

\* the best fitness after the log entry e, which saw e.best before it
BestAfter(e) == IF ~e.survived /\ e.fitness > e.best THEN e.fitness ELSE e.best

\* C8, for one update(): generation and totalDeaths grow by the number of
\* deaths; the best fitness passes from death to death, raised exactly by a
\* death of strictly greater fitness; the snapshot changes exactly when the
\* best fitness does.
C8Update ==
    LET log == updateLog'
        d == Cardinality(Deaths(log))
    IN /\ generation' = generation + d
       /\ totalDeaths' = totalDeaths + d
       /\ IF log = <<>> THEN bestFitness' = bestFitness
          ELSE /\ log[1].best = bestFitness
               /\ \A k \in DOMAIN log : k > 1 => log[k].best = BestAfter(log[k - 1])
               /\ bestFitness' = BestAfter(log[Len(log)])
       /\ bestFitness' = bestFitness => allTimeBest' = allTimeBest

\* C8, for a call that is no update(): a reset leaves a roster of new
\* entities bred from none and the values at 0 and null, every other call
\* leaves the values as they are.
C8Other ==
    IF \A i \in DOMAIN entities' : Newborn(entities'[i]) /\ entities'[i].parent = 0
    THEN generation' = 0 /\ totalDeaths' = 0 /\ bestFitness' = 0 /\ allTimeBest' = <<>>
    ELSE UNCHANGED <<generation, totalDeaths, bestFitness, allTimeBest>>

\* C8, in every state: generation = totalDeaths; the snapshot is null while
\* nothing died and else carries the best fitness.
C8State ==
    /\ generation = totalDeaths
    /\ totalDeaths = 0 => bestFitness = 0 /\ allTimeBest = <<>>
    /\ totalDeaths > 0 => Len(allTimeBest) = 1 /\ allTimeBest[1].fitness = bestFitness

\* C8: every death-triggered replacement adds 1 to generation and to
\* totalDeaths and raises the best fitness and the snapshot exactly when the
\* dying entity's fitness is strictly greater; no other call but a reset
\* changes them; generation = totalDeaths and the snapshot's fitness is the
\* best fitness, the greatest fitness at death since the last reset.
C8_Counters ==
    /\ []C8State
    /\ [][IF IsUpdate THEN C8Update ELSE C8Other]_vars

\* C8 witness: after several deaths, an update() in which an entity died
\* with a fitness below the best one.
C8_Witness ==
    /\ generation > 2 /\ generation = totalDeaths
    /\ \E k \in Deaths(updateLog) : updateLog[k].fitness < updateLog[k].best
    /\ allTimeBest[1].fitness = bestFitness

\* the log entries of the deaths that left no living entity in the roster
LastDeaths(log) ==
    {k \in Deaths(log) : \A j \in DOMAIN log[k].roster : log[k].roster[j].energy <= 0}

\* C9: when the entity that dies is the last living one, update() completes
\* and the slot holds a new entity bred from no parent; generation and
\* totalDeaths count the death like any other.
C9_LastDeath ==
    [][IsUpdate =>
          /\ \A k \in LastDeaths(updateLog') :
                /\ Newborn(entities'[updateLog'[k].slot])
                /\ entities'[updateLog'[k].slot].parent = 0
          /\ generation' = generation + Cardinality(Deaths(updateLog'))
          /\ totalDeaths' = totalDeaths + Cardinality(Deaths(updateLog'))]_vars

\* C9 witness: in a roster of MaxPop slots whose other entities were dead,
\* the last one died and its slot holds a new entity bred from none.
C9_Witness ==
    /\ populationSize = MaxPop
    /\ \E k \in LastDeaths(updateLog) :
          /\ Newborn(entities[updateLog[k].slot])
          /\ entities[updateLog[k].slot].parent = 0
          /\ \A i \in DOMAIN entities : i # updateLog[k].slot => entities[i].energy = 0

-----------------------------------------------------------------------------
(* Claims about consumeEnergy() under the population *)

\* the elements of a sequence
Range(q) == {q[k] : k \in DOMAIN q}

\* what the entity of slot i gained in the update() that wrote log: a survivor
\* shows it in totalEnergyGained, an entity that died in the fitness logged
\* at its death (age + totalEnergyGained)
C11Gain(i, log) ==
    IF \E k \in DOMAIN log : log[k].slot = i /\ ~log[k].survived
    THEN LET k == CHOOSE k \in DOMAIN log : log[k].slot = i
         IN log[k].fitness - (entities[i].age + 1) - entities[i].totalEnergyGained
    ELSE entities'[i].totalEnergyGained - entities[i].totalEnergyGained

\* C11, for one update() that found the world as r: every call returned 10
\* or 0; the entries that left the list are as many as the calls that
\* returned 10, cell by cell, and nothing else left or joined it; on each
\* cell the entities that gained are the lowest slots standing on it, as many
\* as it held active entries; exactly the cores of the entries that left are
\* scheduled to move, MoveDelay ticks on; the fields are as step() left them.
C11Effect(r) ==
    LET handled == Living(entities)
        gainers == {i \in handled : C11Gain(i, updateLog') > 0}
        removed == Range(r.energies) \ Range(energies')
        On(S, c) == {i \in S : <<entities[i].x, entities[i].y>> = c}
        ActiveAt(c) == {e \in Range(r.energies) : <<e.x, e.y>> = c /\ e.active}
    IN /\ \A i \in handled : C11Gain(i, updateLog') \in {0, EnergyValue}
       /\ energies' = SelectSeq(r.energies, LAMBDA e : e \notin removed)
       /\ \A c \in Cells(gridSize) :
             /\ Cardinality(On(gainers, c)) =
                   Min(Cardinality(On(handled, c)), Cardinality(ActiveAt(c)))
             /\ \A i \in On(gainers, c), j \in On(handled, c) \ gainers : i < j
             /\ Cardinality({e \in removed : <<e.x, e.y>> = c}) =
                   Cardinality(On(gainers, c))
             /\ {e \in removed : <<e.x, e.y>> = c} \subseteq ActiveAt(c)
       /\ \A k \in DOMAIN cores :
             cores'[k] =
                IF \E e \in removed : e.coreId = r.cores[k].id
                THEN [r.cores[k] EXCEPT !.moveAfterTick = tick' + MoveDelay]
                ELSE r.cores[k]
       /\ temperature' = r.temperature
       /\ catalyser' = r.catalyser
       /\ upperCatalyser' = r.upperCatalyser

-----------------------------------------------------------------------------
(* Claims about the persistence hooks *)

\* C12, as claimed: whatever the persistence hooks do, every update() runs
\* to completion: nothing is thrown to the caller of step(), every slot
\* living on entry is handled, and every entity that died is replaced.
C12_HooksIsolated ==
    [][IsUpdate =>
          /\ thrown' = FALSE
          /\ {updateLog'[k].slot : k \in DOMAIN updateLog'} = Living(entities)
          /\ \A i \in Living(entities) : entities'[i].energy > 0]_vars

-----------------------------------------------------------------------------
(* Claims about the clock *)

\* C13, as claimed: two runs that start from one state and receive the same
\* draws are in the same state after every tick: the entities, what they
\* sensed (the life force stored with each memory) and the input of their
\* policy are the same, whatever the clock read in either run.
C13_SameDrawsSameStates ==
    runs # <<>> =>
       /\ runs[1].entities = runs[2].entities
       /\ runs[1].sensed = runs[2].sensed

-----------------------------------------------------------------------------
(* Claims about the network *)

\* layer l of the data does not have the shape the architecture declares
C14Shape(data, l) ==
    LET layer == data.layers[l]
        declared == data.architecture.structure[l]
    IN \/ Len(layer.weights) # declared.neurons
       \/ \E j \in DOMAIN layer.weights : Len(layer.weights[j]) # declared.inputs
       \/ Len(layer.biases) # declared.biases

\* the layer list of the data does not match the declared architecture
C14Mismatch(data) ==
    IF Invalid(data) THEN TRUE
    ELSE \/ Len(data.layers) # data.architecture.layers
         \/ \E l \in DOMAIN data.layers :
               l <= data.architecture.layers /\ C14Shape(data, l)

\* C14: deserialize fails with an error whenever the layer list of the data
\* does not match the declared architecture (another number of layers, or a
\* layer whose weight or bias dimensions differ from the declared shape); it
\* never returns a network.
C14_MismatchFails ==
    (restored # <<>> /\ C14Mismatch(restored.data)) => restored.result.threw # ""

\* C15: deserialize(serialize(p)) has the same number of layers, the same
\* shape of each layer and the same value of every weight and bias as p.
C15_RoundTrip ==
    (restored # <<>> /\ restored.data = Serialize(network, restored.data.serializedAt))
    => /\ restored.result.threw = ""
       /\ Len(restored.result.network.layers) = Len(network.layers)
       /\ GetArchitecture(restored.result.network).structure
             = GetArchitecture(network).structure
       /\ Parameters(restored.result.network) = Parameters(network)
       /\ \A p \in Parameters(network) :
             Parameter(restored.result.network, p) = Parameter(network, p)

\* a network with hidden layers has been serialized late and read back
C15_Witness ==
    /\ restored # <<>>
    /\ restored.data = Serialize(network, LateClock)
    /\ Len(network.layers) = 3
    /\ restored.result.threw = ""
    /\ restored.result.network = network

\* C16: mutate with rate 0 returns, for every strength, a network in which
\* every weight and bias equals the corresponding one of the network it was
\* called on, so calculateSimilarity of the two is 1.
C16_RateZero ==
    (mutated # <<>> /\ mutated.mutationRate = 0)
    => /\ Parameters(mutated.network) = Parameters(network)
       /\ \A p \in Parameters(network) :
             Parameter(mutated.network, p) = Parameter(network, p)
       /\ mutated.similarity = 10000

\* a network has been mutated with rate 0 and strength 1 while every
\* Math.random() draw was 0
C16_Witness ==
    /\ mutated # <<>>
    /\ mutated.mutationRate = 0
    /\ mutated.mutationStrength = 100
    /\ mutated.draws = 0
    /\ mutated.network = network
    /\ mutated.similarity = 10000

-----------------------------------------------------------------------------
(* Claims about the brains *)

\* no two entities, and no entity and the snapshot, refer to one network
C17Distinct ==
    /\ \A i, j \in DOMAIN brains.of : i # j => brains.of[i] # brains.of[j]
    /\ \A i \in DOMAIN brains.of : brains.of[i] # brains.best

\* the slots update() updated, and those whose entity died in it
C17Updated == {updateLog'[k].slot : k \in DOMAIN updateLog'}

C17Died == {updateLog'[k].slot : k \in {m \in DOMAIN updateLog' : ~updateLog'[m].survived}}

\* over one update(), the network of an entity that lives on has received the
\* entity's own nudge and nothing else, the network of an entity that was not
\* updated and the network of a snapshot that stays are as they were, and a
\* new entity's network and a new snapshot's network have received nothing
C17Frame ==
    /\ \A i \in DOMAIN entities :
          brains'.heap[brains'.of[i]] =
             IF i \in C17Died THEN 0
             ELSE IF i \in C17Updated
                  THEN brains.heap[brains.of[i]] + Nudge(entities'[i].recentOutcomes)
             ELSE brains.heap[brains.of[i]]
    /\ brains'.best # 0 =>
          brains'.heap[brains'.best] =
             IF bestFitness' = bestFitness THEN brains.heap[brains.best] ELSE 0

-----------------------------------------------------------------------------
(* Claims about clone() *)

\* the entries of the latest update() at which the snapshot was taken: the
\* entity died with a fitness above the best so far
C18Snapshots ==
    {k \in DOMAIN updateLog :
        ~updateLog[k].survived /\ updateLog[k].fitness > updateLog[k].best}

\* C18: clone() returns an entity whose position, energy, age,
\* totalEnergyGained, fitness, memory and lastAction equal those of the
\* original at the time of the call.  The snapshot is the clone of the entity
\* that died last with a new best fitness.
C18_CloneEqual ==
    \A k \in C18Snapshots :
       (\A m \in C18Snapshots : m <= k) =>
          LET original == updateLog[k].dead[1]
              copy == allTimeBest[1]
          IN /\ copy.x = original.x /\ copy.y = original.y
             /\ copy.energy = original.energy
             /\ copy.age = original.age
             /\ copy.totalEnergyGained = original.totalEnergyGained
             /\ copy.fitness = original.fitness
             /\ copy.memory = original.memory
             /\ copy.lastAction = original.lastAction

-----------------------------------------------------------------------------
(* Claims about the memory *)

\* the memory of every entity holds min(age, 50) experiences in the order of
\* their ticks, age being the number of update() calls on the entity; the
\* world's tick advances with every second step(), so two experiences in a
\* row may bear one tick
C19Ordered ==
    \A i \in DOMAIN entities :
       LET memory == entities[i].memory
       IN /\ Len(memory) = Min(entities[i].age, MemoryCapacity)
          /\ \A k \in 1 .. Len(memory) - 1 : memory[k].tick <= memory[k + 1].tick

\* over one update(), the memory of an entity that was updated and lives on
\* is the memory it had with the experience of this tick at its end, and
\* without its oldest experience when it held 50 already
C19Appended ==
    \A i \in {updateLog'[k].slot : k \in {m \in DOMAIN updateLog' : updateLog'[m].survived}} :
       LET old == entities[i].memory
           new == entities'[i].memory
           kept == IF Len(old) < MemoryCapacity THEN old ELSE Tail(old)
       IN /\ Len(new) = Len(kept) + 1
          /\ SubSeq(new, 1, Len(kept)) = kept
          /\ new[Len(new)].tick = tick'

\* C19: after k update() calls on an entity its memory holds exactly
\* min(k, 50) experiences, ordered by the tick at which they were recorded,
\* and they are the most recent ones: when a 51st experience is appended the
\* one that leaves is the oldest.
C19_MemoryFifo ==
    /\ C19Ordered
    /\ [][C19Ordered' /\ (IsUpdate => C19Appended)]_vars

\* an entity has been updated 52 times and remembers the latest 50 updates,
\* from the third one (of tick 1) on
C19_Witness ==
    \E i \in DOMAIN entities :
       /\ stepCalls = MemoryCapacity + 2
       /\ entities[i].age = stepCalls
       /\ Len(entities[i].memory) = MemoryCapacity
       /\ entities[i].memory[1].tick = 1
       /\ entities[i].memory[2].tick = 2
       /\ entities[i].memory[MemoryCapacity].tick = tick

-----------------------------------------------------------------------------
(* Claims about sensing *)

\* field1 to field5 are 0 and the confidence is 0
C20Zero(p) ==
    /\ p.field1 = 0 /\ p.field2 = 0 /\ p.field3 = 0 /\ p.field4 = 0 /\ p.field5 = 0
    /\ p.confidence = 0

\* the coordinates about the edges of the grid, and the distances, that
\* getRawPhysicalProperties is asked about
C20Coordinates == {-1, 0, gridSize - 1, gridSize}

C20Distances == {0, 1, 2 * VisionRadius}

\* every call with x or y off the grid returns zeros with confidence 0
C20OffGrid ==
    \A x \in C20Coordinates, y \in C20Coordinates, distance \in C20Distances,
       energy \in ObserverEnergies, draws \in NoiseDraws :
       (x < 0 \/ x >= gridSize \/ y < 0 \/ y >= gridSize)
       => C20Zero(GetRawPhysicalProperties(x, y, distance, energy, draws))

\* the observer holds one point for each of the 81 offsets, and the points
\* beyond the edge are zero with confidence 0
C20Vision ==
    vision # <<>> =>
       /\ Len(vision.points) = 81
       /\ {<<vision.points[k].relativeX, vision.points[k].relativeY>> :
              k \in DOMAIN vision.points}
             = (-VisionRadius .. VisionRadius) \X (-VisionRadius .. VisionRadius)
       /\ \A k \in DOMAIN vision.points :
             LET p == vision.points[k]
                 x == vision.x + p.relativeX
                 y == vision.y + p.relativeY
             IN (x < 0 \/ x >= gridSize \/ y < 0 \/ y >= gridSize) => C20Zero(p)

\* C20: getRawPhysicalProperties(x, y, distance, energy) with x or y outside
\* [0, N) returns field1..field5 = 0 and confidence 0, and changes nothing of
\* the world; sensing is not wrapped round the torus, and an entity on an edge
\* cell still receives 81 vision points, those beyond the edge being zero
\* with confidence 0.
C20_OffGridZero ==
    [][/\ C20OffGrid /\ C20Vision
       /\ C20OffGrid' /\ C20Vision'
       /\ vision' # vision => UNCHANGED worldVars]_vars

\* an observer of energy 100 on the corner (0, 0) of a warm world holds 81
\* points: its own cell is seen with confidence 1 and a field above 0, the
\* cell one to the left is beyond the edge and all zero
C20_Witness ==
    /\ vision # <<>>
    /\ vision.x = 0 /\ vision.y = 0 /\ vision.energy = InitialEnergy
    /\ Len(vision.points) = 81
    /\ \E k \in DOMAIN vision.points :
          /\ vision.points[k].relativeX = 0 /\ vision.points[k].relativeY = 0
          /\ vision.points[k].confidence = 100
          /\ vision.points[k].field1 > 0
    /\ \E k \in DOMAIN vision.points :
          /\ vision.points[k].relativeX = -1 /\ vision.points[k].relativeY = 0
          /\ C20Zero(vision.points[k])
    /\ tick > 0

-----------------------------------------------------------------------------
(* Claims about the parent of a birth *)

\* the slots that were living when the entry e of update() was written, that
\* is at the moment of the death it records
C21Living(e) == {j \in DOMAIN e.roster : e.roster[j].energy > 0}

\* C21: the parent of a birth that a death triggers is the lowest slot among
\* the entities living at the moment of the death that have the greatest
\* fitness; the dying entity is never its own parent; the candidates are the
\* roster as it is at that moment, with the entities update() has not reached
\* yet and those born earlier in the same call.
C21_Parent ==
    [][IsUpdate =>
          \A k \in Deaths(updateLog') :
             LET e == updateLog'[k]
                 parent == entities'[e.slot].parent
             IN /\ parent # e.slot
                /\ IF C21Living(e) = {} THEN parent = 0
                   ELSE /\ parent \in C21Living(e)
                        /\ \A j \in C21Living(e) :
                              \/ e.roster[parent].fitness > e.roster[j].fitness
                              \/ /\ e.roster[parent].fitness = e.roster[j].fitness
                                 /\ parent <= j]_vars

\* three entities died in one update(): the first was bred from the second,
\* which update() had not reached yet, the second from the third, and the
\* third from the first, which was born earlier in the same call
C21_Witness ==
    /\ Cardinality(Deaths(updateLog)) = MaxPop
    /\ MaxPop >= 3
    /\ entities[1].parent = 2
    /\ entities[2].parent = MaxPop
    /\ entities[MaxPop].parent = 1

-----------------------------------------------------------------------------
(* Claims about the order of the nudge and the decision *)

\* the entity of the entry e of the last update() as its own update left it
C22Entity(e) == IF e.survived THEN entities[e.slot] ELSE e.dead[1]

\* C22: within update(), whenever the window of recent outcomes is not empty
\* and its mean is not negligible, the nudge of the output biases is applied
\* before the action of this update is chosen: the forward pass that samples
\* the action reads the parameters with the nudge in them.
C22_NudgeBeforeDecision ==
    \A k \in DOMAIN updateLog :
       Nudge(C22Entity(updateLog[k]).recentOutcomes) # 0 =>
          updateLog[k].forward = updateLog[k].parameters

-----------------------------------------------------------------------------
(* Claims about the end of a bloom *)

\* the transition is a step() of the world
IsStep == stepCalls' = stepCalls + 1

\* the cell of a core
CellOf(core) == <<core.x, core.y>>

\* b is one of the 8 cells around a on the torus of side n, and not a itself
Adjacent(a, b, n) ==
    /\ (b[1] - a[1] + n) % n \in {0, 1, n - 1}
    /\ (b[2] - a[2] + n) % n \in {0, 1, n - 1}
    /\ b # a

\* the lower catalyser as the phase of this step() leaves it, before the
\* cores are updated
C23Lower ==
    IF phase = "emit" THEN EmitLower(catalyser, upperCatalyser, gridSize)
    ELSE CollectLower(catalyser, gridSize)

\* the cells core i can be on when it withers in this step(): its cell, or,
\* when a delayed move is applied first, a cell next to it
C23Left(i) ==
    IF cores[i].moveAfterTick > 0 /\ TickAfter >= cores[i].moveAfterTick
    THEN {c \in Cells(gridSize) : Adjacent(CellOf(cores[i]), c, gridSize)}
    ELSE {CellOf(cores[i])}

\* C23: a core that bloomed at tick b stays bloomed after every step() that
\* ends with tick < b + 5 and becomes dormant in the first step() that ends
\* with tick >= b + 5; in that step the lower catalyser at the cell the core
\* leaves grows by 0.1 (once for every core that withers there) and the core
\* ends on one of the 8 cells around that cell on the torus, never on it.
C23_BloomEnds ==
    [][IsStep =>
          \A i \in CoreIds :
             cores[i].state = "bloomed" =>
                IF tick' < cores[i].bloomTime + Lifetime
                THEN /\ cores'[i].state = "bloomed"
                     /\ cores'[i].bloomTime = cores[i].bloomTime
                ELSE /\ cores'[i].state = "dormant"
                     /\ \E left \in C23Left(i) :
                           /\ Adjacent(left, CellOf(cores'[i]), gridSize)
                           /\ catalyser'[left] - C23Lower[left]
                                 \in {Release * k : k \in 1 .. NumCores}]_vars

\* a step() has just ended the bloom of a core: the core is dormant five
\* ticks after its bloom and the catalyser it released is on a cell that is
\* not the core's
C23_Witness ==
    \E i \in CoreIds :
       /\ cores[i].state = "dormant"
       /\ cores[i].bloomTime > 0
       /\ tick = cores[i].bloomTime + Lifetime
       /\ phase = "emit"
       /\ \E c \in Cells(gridSize) :
             /\ catalyser[c] = Release
             /\ Adjacent(c, CellOf(cores[i]), gridSize)

-----------------------------------------------------------------------------
(* Claims about the life of an energy manifestation *)

\* every entry of the list is active and younger than five ticks, and
\* getWorldState() counts as many active energies as energies
C24Active ==
    /\ \A k \in DOMAIN energies :
          energies[k].active /\ tick - energies[k].createdAt < Lifetime
    /\ GetWorldState.energies = GetWorldState.activeEnergies

\* C24: an energy manifestation created at tick c that is not consumed is in
\* the list and active after every step() that ends with tick - c < 5 and is
\* gone after the first step() that ends with tick - c >= 5; no inactive
\* entry ever stays in the list, so getWorldState() reports energies equal to
\* activeEnergies.
C24_EnergyLifetime ==
    [][/\ C24Active
       /\ C24Active'
       /\ IsStep =>
             \A k \in DOMAIN energies :
                IF tick' - energies[k].createdAt < Lifetime
                THEN energies[k] \in Range(energies')
                ELSE energies[k] \notin Range(energies')]_vars

\* a manifestation has stayed in the list up to the last state before the
\* step() that drops it
C24_Witness ==
    \E k \in DOMAIN energies :
       /\ tick - energies[k].createdAt = Lifetime - 1
       /\ phase = "collect"
       /\ energies[k].active
       /\ GetWorldState.activeEnergies >= 1

-----------------------------------------------------------------------------
(* Claims about the relocation after a consumption *)

\* the transition is a consumeEnergy() that found an entry
C25Consumed == stepCalls' = stepCalls /\ Len(energies') = Len(energies) - 1

\* the bloom of core i ends in this step(), which relocates the core
C25BloomEnds(i) ==
    cores[i].state = "bloomed" /\ tick' - cores[i].bloomTime >= Lifetime

\* consumeEnergy() at tick t leaves the relocation of the entry's core
\* pending for tick t + 3 and the core where it is
C25Scheduled ==
    \E k \in DOMAIN energies :
       /\ energies[k] \notin Range(energies')
       /\ \A i \in CoreIds :
             /\ CellOf(cores'[i]) = CellOf(cores[i])
             /\ cores'[i].moveAfterTick =
                   IF cores[i].id = energies[k].coreId THEN tick + MoveDelay
                   ELSE cores[i].moveAfterTick

\* a step() on core i: a pending relocation is left pending, and the core
\* where it is, while the tick the step ends with is below the tick it was
\* scheduled for; in the first step at or beyond that tick the core moves to
\* one of the 8 cells around it and nothing is pending any more; a core with
\* nothing pending stays where it is.  (The end of a bloom relocates a core
\* on its own account.)
C25Applied(i) ==
    IF cores[i].moveAfterTick > 0 /\ tick' >= cores[i].moveAfterTick
    THEN /\ cores'[i].moveAfterTick = 0
         /\ ~C25BloomEnds(i) => Adjacent(CellOf(cores[i]), CellOf(cores'[i]), gridSize)
    ELSE /\ cores'[i].moveAfterTick = cores[i].moveAfterTick
         /\ ~C25BloomEnds(i) => CellOf(cores'[i]) = CellOf(cores[i])

\* C25: after consumeEnergy() succeeds at tick t, the core of the entry does
\* not relocate on account of the consumption while tick < t + 3, relocates
\* to an adjacent cell of the torus exactly once in the first step() whose
\* core update runs with tick >= t + 3, and that step clears the pending
\* relocation, so that it is never applied a second time.
C25_DelayedRelocation ==
    [][/\ C25Consumed => C25Scheduled
       /\ IsStep => \A i \in CoreIds : C25Applied(i)]_vars

\* the manifestation of a core in bloom was consumed, and the relocation
\* scheduled for it has been applied and cleared
C25_Witness ==
    \E i \in CoreIds :
       /\ cores[i].state = "bloomed"
       /\ cores[i].moveAfterTick = 0
       /\ tick >= cores[i].bloomTime + MoveDelay
       /\ \A k \in DOMAIN energies : energies[k].coreId # cores[i].id

-----------------------------------------------------------------------------
(* Claims about forceEvolution() *)

\* the living slots of least and of greatest fitness
C26Weakest ==
    {i \in Living(entities) :
        \A j \in Living(entities) : entities[i].fitness <= entities[j].fitness}

C26Strongest ==
    {i \in Living(entities) :
        \A j \in Living(entities) : entities[i].fitness >= entities[j].fitness}

\* slot w now holds a new entity bred from the entity of slot p, which is
\* still in the roster; every other slot is as it was
C26Replaced(w, p) ==
    /\ entities'[w].parent = p
    /\ entities'[w].age = 0
    /\ entities'[w].energy = InitialEnergy
    /\ p # w
    /\ \A j \in DOMAIN entities : j # w => entities'[j] = entities[j]

\* C26: forceEvolution() with at least one living entity overwrites exactly
\* one slot, that of a living entity of least fitness, with a mutated
\* offspring of a living entity of greatest fitness, and the parent is still
\* in the roster afterwards; every other slot and generation, totalDeaths and
\* bestFitness are unchanged.  With no living entity it changes nothing.
C26_ForceEvolution ==
    [][ForceEvolution =>
          /\ UNCHANGED <<populationSize, generation, totalDeaths, bestFitness,
                         allTimeBest>>
          /\ IF Living(entities) = {} THEN UNCHANGED <<entities, brains>>
             ELSE \E w \in C26Weakest, p \in C26Strongest : C26Replaced(w, p)]_vars

-----------------------------------------------------------------------------
(* Claims about the energies and their cores *)

\* the entry e is the manifestation of the core: the core is in bloom since
\* the tick the entry was created at, on the entry's cell
C27Owns(core, e) ==
    /\ core.id = e.coreId
    /\ core.state = "bloomed"
    /\ core.bloomTime = e.createdAt
    /\ CellOf(core) = <<e.x, e.y>>

\* C27: in every state that step(), consumeEnergy() and reset() lead to, each
\* entry of the energies list belongs to a core that is in bloom, whose bloom
\* tick is the entry's creation tick and whose cell is the entry's cell, and
\* no core has more than one entry: a core never moves away from its own
\* unconsumed manifestation and never leaves the bloom before it, also when a
\* relocation scheduled by an earlier consumption is still pending.
C27_EnergyOfBloomedCore ==
    /\ \A k \in DOMAIN energies : \E i \in CoreIds : C27Owns(cores[i], energies[k])
    /\ \A k, m \in DOMAIN energies :
          k # m => energies[k].coreId # energies[m].coreId

\* late in the run, when the blooms that began with the world have ended, a
\* core that was incubated anew is in bloom with its manifestation on its
\* cell, and no relocation is pending for it
C27_Witness ==
    \E i \in CoreIds, k \in DOMAIN energies :
       /\ C27Owns(cores[i], energies[k])
       /\ cores[i].bloomTime >= 2 + Lifetime + 2
       /\ cores[i].incubationTime >= 2 + Lifetime
       /\ cores[i].moveAfterTick = 0

-----------------------------------------------------------------------------
(* Claims about the energy of an entity *)

\* the updates an entity that never consumes lives through: 100 / 0.5
C28Updates == InitialEnergy \div Decay

\* the entity of the entry e of this update() as its own update left it
C28Entity(e) == IF e.survived THEN entities'[e.slot] ELSE e.dead[1]

\* what update() returned for the entry e agrees with the energy it left:
\* alive with energy above 0, dead with energy exactly 0; an entity that has
\* never consumed has lost 0.5 in each of its updates and is alive after
\* each of the first 199 of them and dead after the 200th
C28Returned(e) ==
    LET a == C28Entity(e)
    IN /\ e.survived => a.energy > 0
       /\ ~e.survived => a.energy = 0
       /\ a.totalEnergyGained = 0 =>
             /\ a.energy = InitialEnergy - a.age * Decay
             /\ e.survived <=> a.age < C28Updates

-----------------------------------------------------------------------------
(* Claims about the outcome of an experience *)

\* no experience of the roster es has the outcome energy_lost, and the
\* indicator of none is -1
C29NeverLost(es) ==
    \A i \in DOMAIN es : \A m \in DOMAIN es[i].memory :
       /\ es[i].memory[m].outcome \in {"energy_gained", "moved"}
       /\ OutcomeIndicator(es[i].memory[m].outcome) \in {0, 1}

\* the experience that the update() logged in e stored: its outcome is
\* energy_gained when the entity consumed in that update (it holds more
\* gained energy than the entity of the slot held before the call) and moved
\* when it did not
C29Stored(e) ==
    LET a == C28Entity(e)
        consumed == a.totalEnergyGained > entities[e.slot].totalEnergyGained
    IN /\ a.memory # <<>>
       /\ a.memory[Len(a.memory)].tick = tick'
       /\ a.memory[Len(a.memory)].outcome =
             IF consumed THEN "energy_gained" ELSE "moved"

-----------------------------------------------------------------------------
(* Claims about the session over a restart *)

\* the id the latest startSession() returned
C30Latest == SessionIds[dbAPI.started]

\* C30: when the simulation is stopped and started again (as reset() does on
\* a running simulation), then in every interleaving of the completions of
\* endSession and startSession the old session is ended under the old id
\* and, once all requests have completed, the simulation's currentSessionId
\* and DatabaseAPI's currentSessionId both are the id the latest
\* startSession returned; a late completion of endSession never clears or
\* ends the new session.
C30_RestartSessions ==
    (isRunning /\ dbAPI.requests = {} /\ dbAPI.started > 0) =>
       /\ currentSessionId = C30Latest
       /\ dbAPI.currentSessionId = C30Latest
       /\ C30Latest \notin dbAPI.ended
       /\ \A k \in 1 .. dbAPI.started - 1 : SessionIds[k] \in dbAPI.ended

====
